---- MODULE Spec2Model ----
(***************************************************************************)
(* Patient-Safety-Guardian: the risk-inference pipeline.                   *)
(*   services/riskDetection.ts      pose history window, four detectors    *)
(*   services/smartBedSimulation.ts simulated vitals and the vitals check  *)
(*   components/PatientMonitor.tsx  the per-frame cycle, saveAlert,        *)
(*                                  saveMonitoringSession, effect cleanup  *)
(*   components/Dashboard.tsx       loadData, acknowledgeAlert,            *)
(*                                  resolveAlert                           *)
(*                                                                         *)
(* Numbers.  Pixel coordinates are integers.  A keypoint score is held in  *)
(* hundredths (0.3 is 30).  A midpoint (a + b) / 2 is held doubled, as     *)
(* a + b, and every comparison the code makes on it is made on the doubled *)
(* values.  A distance, a sum of distances and the aggression confidence   *)
(* computed from them are IEEE doubles, held exactly: a double d with      *)
(* 2^-10 <= d < 8192 (or d = 0) is a whole multiple of 2^-62, written as   *)
(* the three limbs <<a2, a1, a0>> with                                     *)
(* d = (a2 * 2^44 + a1 * 2^22 + a0) / 2^62, so 1.0 is <<262144, 0, 0>>;    *)
(* sums, quotients and square roots round to nearest, ties to even, as the *)
(* code's arithmetic does.  Every other confidence is the fraction         *)
(* <<num, den>>.  Times are milliseconds.                                  *)
(***************************************************************************)
EXTENDS Integers, Sequences, FiniteSets, TLC

VARIABLES
  poseHistory,  \* [Tabs -> Seq(PoseData)]: riskDetection.ts poseHistory.poses of each page
  histOwner,    \* aligned with poseHistory: the monitor session that appended each entry
  detector,     \* [Tabs -> BOOLEAN]: poseDetection.ts `detector` is set
  alerts,       \* the alerts table, in insertion order (the index is the id)
  msessions,    \* the monitoring_sessions table: its row count and its newest row
  now,          \* the clock (Date.now() and the store's now()), ms
  mon,          \* [Sessions -> the state of one PatientMonitor instance]
  dash,         \* [Dashboards -> a Dashboard page: its alerts and calls in flight]
  errlog,       \* the message of the last console.error call
  appended,     \* every pose appended to page 1's window since its last clear
  risks,        \* the result of the last analyzeRisks call of the detection layer
  nCalls        \* the number of poses handed to the detection layer so far

vars == <<poseHistory, histOwner, detector, alerts, msessions, now, mon, dash,
          errlog, appended, risks, nCalls>>

(***************************************************************************)
(* Values                                                                  *)
(***************************************************************************)
Undefined == [name |-> "undefined"]
Null == [type |-> "null"]
TypeError == [type |-> "TypeError"]

maxHistory == 30
ScoreThreshold == 30

bedArea == [x |-> 200, y |-> 150, width |-> 400, height |-> 300]

Min(S) == CHOOSE v \in S : \A w \in S : v <= w
Abs(v) == IF v < 0 THEN -v ELSE v

Keypoint(name, x, y, score) == [name |-> name, x |-> x, y |-> y, score |-> score]
PoseData(keypoints, score) == [keypoints |-> keypoints, score |-> score]

\* Array.prototype.slice(-n)
SliceLast(s, n) == IF Len(s) <= n THEN s ELSE SubSeq(s, Len(s) - n + 1, Len(s))

(***************************************************************************)
(* riskDetection.ts                                                        *)
(***************************************************************************)
addPoseToHistory_NoShift(poses, pose) == Append(poses, pose)

addPoseToHistory(poses, pose) ==
  LET pushed == Append(poses, pose)
  IN  IF Len(pushed) > maxHistory THEN Tail(pushed) ELSE pushed

clearPoseHistory_KeepLast(poses) == SliceLast(poses, 12)

clearPoseHistory(poses) == << >>

getKeypoint_NoScore(pose, name) ==
  LET hit == {i \in DOMAIN pose.keypoints : pose.keypoints[i].name = name}
  IN  IF hit = {} THEN Undefined ELSE pose.keypoints[Min(hit)]

getKeypoint(pose, name) ==
  LET hit == {i \in DOMAIN pose.keypoints :
                /\ pose.keypoints[i].name = name
                /\ pose.keypoints[i].score > ScoreThreshold}
  IN  IF hit = {} THEN Undefined ELSE pose.keypoints[Min(hit)]

(***************************************************************************)
(* The doubles of detectAggression.  A double has DoubleBits significant   *)
(* bits, so a double of 2^-10 or more, below 2^13, is a whole multiple of  *)
(* 2^-62 and is held exactly as that multiple, written in three limbs      *)
(* <<a2, a1, a0>>, a1 and a0 of LimbBits bits:                             *)
(* value = (a2 * Limb^2 + a1 * Limb + a0) / 2^FractionBits.  0 is          *)
(* <<0, 0, 0>> and 1 is <<262144, 0, 0>>.  Every operation rounds to the   *)
(* nearest double, ties to even, as IEEE 754 arithmetic does.  The doubles *)
(* detectAggression computes lie in this range: a distance between whole   *)
(* pixel positions is 0 or at least 1, so a sum of four is 0 or at least   *)
(* 1, its fifth 0 or at least 0.2, and the 200th part of that 0 or at      *)
(* least 0.001.                                                            *)
(***************************************************************************)
LimbBits == 22
Limb == 4194304
DoubleBits == 53
FractionBits == 62

DoubleZero == <<0, 0, 0>>
DoubleOne == <<262144, 0, 0>>
\* the double of a whole number n below 2^13
DoubleOfInt(n) == <<n * 262144, 0, 0>>

RECURSIVE Pow2(_)
Pow2(k) == IF k = 0 THEN 1 ELSE 2 * Pow2(k - 1)

\* the number of bits of n
RECURSIVE Bits(_)
Bits(n) == IF n = 0 THEN 0 ELSE 1 + Bits(n \div 2)

BigBits(a) ==
  IF a[1] > 0 THEN 2 * LimbBits + Bits(a[1])
  ELSE IF a[2] > 0 THEN LimbBits + Bits(a[2])
  ELSE Bits(a[3])

BigCarry(t2, t1, t0) ==
  <<t2 + (t1 + t0 \div Limb) \div Limb, (t1 + t0 \div Limb) % Limb, t0 % Limb>>

BigAdd(a, b) == BigCarry(a[1] + b[1], a[2] + b[2], a[3] + b[3])

BigGt(a, b) ==
  \/ a[1] > b[1]
  \/ a[1] = b[1] /\ a[2] > b[2]
  \/ a[1] = b[1] /\ a[2] = b[2] /\ a[3] > b[3]

\* a * 2^k
RECURSIVE BigShl(_, _)
BigShl(a, k) ==
  IF k > 8 THEN BigShl(BigShl(a, 8), k - 8)
  ELSE BigCarry(a[1] * Pow2(k), a[2] * Pow2(k), a[3] * Pow2(k))

\* a, longer than DoubleBits bits (by LimbBits at most), rounded to its
\* first DoubleBits bits; sticky: the exact value lies above a
RoundBits(a, sticky) ==
  LET p == Pow2(BigBits(a) - DoubleBits)
      low == a[3] % p
      odd == IF p = Limb THEN a[2] % 2 = 1 ELSE (a[3] \div p) % 2 = 1
      up == \/ 2 * low > p
            \/ 2 * low = p /\ (sticky \/ odd)
  IN  IF up THEN BigAdd(<<a[1], a[2], a[3] - low>>, <<0, 0, p>>)
      ELSE <<a[1], a[2], a[3] - low>>

\* a + b in doubles
DoubleAdd(a, b) ==
  IF a = DoubleZero THEN b
  ELSE IF b = DoubleZero THEN a
  ELSE LET sum == BigAdd(a, b)
       IN  IF BigBits(sum) > DoubleBits THEN RoundBits(sum, FALSE) ELSE sum

\* a / k in doubles, for a whole number k up to 200: the quotient by long
\* division over the limbs, rounded on its remainder.  The quotient is 0 or
\* at least 2^-10.
DoubleDiv(a, k) ==
  LET t1 == (a[1] % k) * Limb + a[2]
      t0 == (t1 % k) * Limb + a[3]
      quotient == <<a[1] \div k, t1 \div k, t0 \div k>>
      rest == t0 % k
  IN  IF BigBits(quotient) > DoubleBits THEN RoundBits(quotient, rest > 0)
      ELSE IF 2 * rest > k \/ (2 * rest = k /\ quotient[3] % 2 = 1)
      THEN BigAdd(quotient, <<0, 0, 1>>)
      ELSE quotient

\* Math.min(a, 1)
MathMinOne(a) == IF BigGt(a, DoubleOne) THEN DoubleOne ELSE a

\* the whole part of the square root of n (the search starts below 46340,
\* the largest root whose square the model checker can hold)
RECURSIVE SqrtWhole(_, _, _)
SqrtWhole(n, lo, hi) ==
  IF lo >= hi THEN lo
  ELSE LET mid == (lo + hi + 1) \div 2
       IN  IF mid * mid <= n THEN SqrtWhole(n, mid, hi) ELSE SqrtWhole(n, lo, mid - 1)

\* one more bit of a square root, by the digit recurrence in base 2.  In
\* s = <<rootHi, rootLo, remHi, remLo>> the bits so far are
\* rootHi * Half + rootLo and the remainder is remHi * Half + remLo; the
\* next bit is 1 when 4 * root + 1 fits in 4 * remainder.
Half == 268435456
SqrtBit(s) ==
  LET wantHi == 4 * s[1] + (4 * s[2] + 1) \div Half
      wantLo == (4 * s[2] + 1) % Half
      haveHi == 4 * s[3] + (4 * s[4]) \div Half
      haveLo == (4 * s[4]) % Half
  IN  IF wantHi > haveHi \/ (wantHi = haveHi /\ wantLo > haveLo)
      THEN <<2 * s[1] + (2 * s[2]) \div Half, (2 * s[2]) % Half, haveHi, haveLo>>
      ELSE <<2 * s[1] + (2 * s[2] + 1) \div Half, (2 * s[2] + 1) % Half,
             haveHi - wantHi - (IF haveLo < wantLo THEN 1 ELSE 0),
             (haveLo - wantLo + Half) % Half>>

\* k more bits, the first half of them and then the rest; the root has no
\* room for another bit once its upper half reaches Half \div 2
RECURSIVE SqrtBits(_, _)
SqrtBits(s, k) ==
  IF k = 0 \/ s[1] >= Half \div 2 THEN s
  ELSE IF k = 1 THEN SqrtBit(s)
  ELSE SqrtBits(SqrtBits(s, k \div 2), k - k \div 2)

\* the first DoubleBits bits of the root of n, whole being its whole part,
\* one more when the remainder is above them (the root then lies above the
\* halfway point to the next double), as a double
SqrtRounded(n, whole) ==
  LET found == SqrtBits(<<0, whole, 0, n - whole * whole>>, DoubleBits - Bits(whole))
      up == IF found[3] > found[1] \/ (found[3] = found[1] /\ found[4] > found[2])
            THEN 1 ELSE 0
  IN  BigShl(BigCarry(0, found[1] * 64 + (found[2] + up) \div Limb,
                      (found[2] + up) % Limb),
             Bits(whole) + FractionBits - DoubleBits)

\* Math.sqrt(n) for a whole number n: the double nearest to the root
MathSqrt(n) ==
  LET whole == SqrtWhole(n, 0, IF n > 46340 THEN 46340 ELSE n)
  IN  IF whole * whole = n THEN DoubleOfInt(whole) ELSE SqrtRounded(n, whole)

\* Math.sqrt(dx * dx + dy * dy)
calculateDistance(p1, p2) ==
  MathSqrt((p2.x - p1.x) * (p2.x - p1.x) + (p2.y - p1.y) * (p2.y - p1.y))

Risk(type, severity, confidence, description) ==
  [type |-> type, severity |-> severity, confidence |-> confidence,
   description |-> description]

MinOne_Uncapped(n, d) == <<n, d>>

\* Math.min(n / d, 1) for d > 0
MinOne(n, d) == IF n > d THEN <<1, 1>> ELSE <<n, d>>

\* riskDetection.ts line 35
detectFallGuard(nose, leftHip, rightHip, leftShoulder, rightShoulder) ==
  Undefined \in {nose, leftHip, rightHip, leftShoulder, rightShoulder}

detectFall(pose) ==
  LET nose == getKeypoint(pose, "nose")
      leftHip == getKeypoint(pose, "left_hip")
      rightHip == getKeypoint(pose, "right_hip")
      leftShoulder == getKeypoint(pose, "left_shoulder")
      rightShoulder == getKeypoint(pose, "right_shoulder")
  IN  IF detectFallGuard(nose, leftHip, rightHip, leftShoulder, rightShoulder)
      THEN Null
      ELSE IF Undefined \in {leftHip, rightHip, leftShoulder, rightShoulder}
      THEN TypeError
      ELSE
        LET hipY2 == leftHip.y + rightHip.y
            shoulderY2 == leftShoulder.y + rightShoulder.y
            bodyHeight2 == Abs(hipY2 - shoulderY2)
            hipX2 == leftHip.x + rightHip.x
            shoulderX2 == leftShoulder.x + rightShoulder.x
            bodyWidth2 == Abs(hipX2 - shoulderX2)
            \* aspectRatio = bodyWidth / (bodyHeight + 1) = bodyWidth2 / (bodyHeight2 + 2)
            ratioOver == 2 * bodyWidth2 > 3 * (bodyHeight2 + 2)
        IN  IF ~ratioOver THEN Null
            ELSE IF nose = Undefined THEN TypeError
            ELSE IF 2 * nose.y > shoulderY2
            THEN Risk("fall", "critical",
                      MinOne(bodyWidth2, 2 * (bodyHeight2 + 2)),
                      <<"Patient appears to have fallen - body is horizontal">>)
            ELSE Null

InBedArea_Exclusive(x2, y2, area) ==
  /\ x2 > 2 * area.x
  /\ x2 < 2 * (area.x + area.width)
  /\ y2 > 2 * area.y
  /\ y2 < 2 * (area.y + area.height)

\* lines 73-77 and 87, on the doubled midpoint
InBedArea(x2, y2, area) ==
  /\ x2 >= 2 * area.x
  /\ x2 <= 2 * (area.x + area.width)
  /\ y2 >= 2 * area.y
  /\ y2 <= 2 * (area.y + area.height)

\* the filter callback of lines 81-88
OutOfBedEntry(p, area) ==
  LET lh == getKeypoint(p, "left_hip")
      rh == getKeypoint(p, "right_hip")
  IN  IF lh = Undefined \/ rh = Undefined THEN FALSE
      ELSE ~InBedArea(lh.x + rh.x, lh.y + rh.y, area)

detectWandering(pose, area, poses) ==
  LET leftHip == getKeypoint(pose, "left_hip")
      rightHip == getKeypoint(pose, "right_hip")
  IN  IF leftHip = Undefined \/ rightHip = Undefined THEN Null
      ELSE
        LET inBed == InBedArea(leftHip.x + rightHip.x, leftHip.y + rightHip.y, area)
        IN  IF ~inBed /\ Len(poses) > 10
            THEN LET recentPoses == SliceLast(poses, 10)
                     outOfBedCount ==
                       Cardinality({i \in DOMAIN recentPoses :
                                      OutOfBedEntry(recentPoses[i], area)})
                 IN  IF outOfBedCount > 7
                     THEN Risk("wandering", "high", <<outOfBedCount, 10>>,
                               <<"Patient has left the bed area">>)
                     ELSE Null
            ELSE Null

\* one iteration of the loop of lines 117-129: totalMovement after it
WristStep(totalMovement, prev, curr) ==
  LET prevLeftWrist == getKeypoint(prev, "left_wrist")
      prevRightWrist == getKeypoint(prev, "right_wrist")
      currLeftWrist == getKeypoint(curr, "left_wrist")
      currRightWrist == getKeypoint(curr, "right_wrist")
      afterLeft == IF prevLeftWrist # Undefined /\ currLeftWrist # Undefined
                   THEN DoubleAdd(totalMovement,
                                  calculateDistance(prevLeftWrist, currLeftWrist))
                   ELSE totalMovement
  IN  IF prevRightWrist # Undefined /\ currRightWrist # Undefined
      THEN DoubleAdd(afterLeft, calculateDistance(prevRightWrist, currRightWrist))
      ELSE afterLeft

TotalMovement_FromFirst(recentPoses, i, totalMovement) ==
  WristStep(totalMovement, recentPoses[1], recentPoses[Len(recentPoses)])

\* the loop of lines 117-129 from index i on
RECURSIVE TotalMovement(_, _, _)
TotalMovement(recentPoses, i, totalMovement) ==
  IF i > Len(recentPoses) THEN totalMovement
  ELSE TotalMovement(recentPoses, i + 1,
                     WristStep(totalMovement, recentPoses[i - 1], recentPoses[i]))

detectAggression(pose, poses) ==
  IF Len(poses) < 5 THEN Null
  ELSE
    LET recentPoses == SliceLast(poses, 5)
        leftWrist == getKeypoint(pose, "left_wrist")
        rightWrist == getKeypoint(pose, "right_wrist")
    IN  IF leftWrist = Undefined \/ rightWrist = Undefined THEN Null
        ELSE
          LET totalMovement == TotalMovement(recentPoses, 2, DoubleZero)
              avgMovement == DoubleDiv(totalMovement, 5)
          IN  IF BigGt(avgMovement, DoubleOfInt(100))
              THEN Risk("aggression", "high", MathMinOne(DoubleDiv(avgMovement, 200)),
                        <<"Rapid arm movements detected - possible aggressive behavior">>)
              ELSE Null

\* riskDetection.ts line 152
detectEmotionalDistressGuard(leftShoulder, rightShoulder, leftHip, rightHip, nose) ==
  Undefined \in {leftShoulder, rightShoulder, leftHip, rightHip, nose}

detectEmotionalDistress_AtLeast(pose) ==
  LET leftShoulder == getKeypoint(pose, "left_shoulder")
      rightShoulder == getKeypoint(pose, "right_shoulder")
      leftHip == getKeypoint(pose, "left_hip")
      rightHip == getKeypoint(pose, "right_hip")
      nose == getKeypoint(pose, "nose")
  IN  IF detectEmotionalDistressGuard(leftShoulder, rightShoulder, leftHip, rightHip, nose)
      THEN Null
      ELSE IF /\ 20 * Abs(leftShoulder.y - rightShoulder.y)
                   >= 3 * Abs((leftHip.y + rightHip.y) - (leftShoulder.y + rightShoulder.y))
              /\ 2 * nose.y <= leftShoulder.y + rightShoulder.y
      THEN Risk("emotion", "medium", <<6, 10>>,
                <<"Unusual posture detected - possible emotional distress">>)
      ELSE Null

detectEmotionalDistress_AnyNose(pose) ==
  LET leftShoulder == getKeypoint(pose, "left_shoulder")
      rightShoulder == getKeypoint(pose, "right_shoulder")
      leftHip == getKeypoint(pose, "left_hip")
      rightHip == getKeypoint(pose, "right_hip")
      nose == getKeypoint(pose, "nose")
  IN  IF detectEmotionalDistressGuard(leftShoulder, rightShoulder, leftHip, rightHip, nose)
      THEN Null
      ELSE IF 20 * Abs(leftShoulder.y - rightShoulder.y)
                > 3 * Abs((leftHip.y + rightHip.y) - (leftShoulder.y + rightShoulder.y))
      THEN Risk("emotion", "medium", <<6, 10>>,
                <<"Unusual posture detected - possible emotional distress">>)
      ELSE Null

detectEmotionalDistress(pose) ==
  LET leftShoulder == getKeypoint(pose, "left_shoulder")
      rightShoulder == getKeypoint(pose, "right_shoulder")
      leftHip == getKeypoint(pose, "left_hip")
      rightHip == getKeypoint(pose, "right_hip")
      nose == getKeypoint(pose, "nose")
  IN  IF detectEmotionalDistressGuard(leftShoulder, rightShoulder, leftHip, rightHip, nose)
      THEN Null
      ELSE IF Undefined \in {leftShoulder, rightShoulder, leftHip, rightHip}
      THEN TypeError
      ELSE
        LET shoulderY2 == leftShoulder.y + rightShoulder.y
            hipY2 == leftHip.y + rightHip.y
            shoulderSlope == Abs(leftShoulder.y - rightShoulder.y)
            bodyLength2 == Abs(hipY2 - shoulderY2)
            \* shoulderSlope > bodyLength * 0.3, bodyLength = bodyLength2 / 2
            slopeOver == 20 * shoulderSlope > 3 * bodyLength2
        IN  IF ~slopeOver THEN Null
            ELSE IF nose = Undefined THEN TypeError
            ELSE IF 2 * nose.y < shoulderY2
            THEN Risk("emotion", "medium", <<6, 10>>,
                      <<"Unusual posture detected - possible emotional distress">>)
            ELSE Null

\* the four results of lines 182-192, in evaluation order
Detections(pose, area, poses) ==
  << detectFall(pose), detectWandering(pose, area, poses),
     detectAggression(pose, poses), detectEmotionalDistress(pose) >>

\* lines 178-194 once the detectors have run: the list returned, or the throw
analyzeRisksResult(pushed, found) ==
  [poses |-> pushed,
   threw |-> \E i \in 1..4 : found[i] = TypeError,
   risks |-> IF \E i \in 1..4 : found[i] = TypeError THEN << >>
             ELSE SelectSeq(found, LAMBDA r : r # Null)]

\* lines 182-194 on the window the pose was appended to
analyzeRisksOn(pushed, pose, area) ==
  analyzeRisksResult(pushed, Detections(pose, area, pushed))

\* analyzeRisks: the window after the call, the list returned, and whether a
\* detector threw (in which case nothing is returned, the append having happened)
analyzeRisks(poses, pose, area) ==
  analyzeRisksOn(addPoseToHistory(poses, pose), pose, area)

(***************************************************************************)
(* smartBedSimulation.ts                                                   *)
(* A Math.random() draw r is held in thousandths (0..999).  heartRate and  *)
(* respiratoryRate are computed in thousandths, temperature in             *)
(* ten-thousandths of a degree; the temperature returned is in tenths.     *)
(***************************************************************************)
baseHeartRate == 75
baseRespRate == 16
\* baseTemp = 37.0, in tenths of a degree
baseTemp == 370

Clamp_None(lo, v, hi) == v

\* Math.max(lo, Math.min(hi, v))
Clamp(lo, v, hi) == IF v < lo THEN lo ELSE IF v > hi THEN hi ELSE v

\* Math.round of v / unit, for v >= 0
RoundDiv(v, unit) == (2 * v + unit) \div (2 * unit)

\* Number(x.toFixed(1)) of the temperature, v / unit being the exact sum:
\* the nearest tenth.  Where the exact sum lies halfway between two tenths
\* (the draws 0.125, 0.375, 0.625 and 0.875: 36.85, 36.95, 37.05, 37.15) the
\* double that baseTemp + r * 0.4 - 0.2 evaluates to lies just below it
\* (36.849999999999994 for 0.125), and toFixed prints the lower tenth.
ToFixed1(v, unit) == (2 * v + unit - 1) \div (2 * unit)

generateSmartBedData(isInBed, hasAggression, hasDistress, rnd) ==
  LET heartRate0 == baseHeartRate * 1000 + rnd[1] * 10 - 5000
      temperature == baseTemp * 1000 + rnd[2] * 4 - 2000
      respiratoryRate0 == baseRespRate * 1000 + rnd[3] * 4 - 2000
      heartRate == heartRate0 + (IF hasAggression THEN 30000 ELSE 0)
                              + (IF hasDistress THEN 15000 ELSE 0)
                              + (IF ~isInBed THEN 10000 ELSE 0)
      respiratoryRate == respiratoryRate0 + (IF hasAggression THEN 8000 ELSE 0)
                                          + (IF hasDistress THEN 5000 ELSE 0)
                                          + (IF ~isInBed THEN 3000 ELSE 0)
  IN  [heartRate |-> RoundDiv(Clamp(50000, heartRate, 150000), 1000),
       isInBed |-> isInBed,
       temperature |-> ToFixed1(Clamp(360000, temperature, 390000), 1000),
       respiratoryRate |-> RoundDiv(Clamp(10000, respiratoryRate, 30000), 1000)]

checkVitalsRisk_TemperatureFirst(bedData) ==
  IF bedData.temperature > 385 \/ bedData.temperature < 360
  THEN Risk("vitals",
            IF bedData.temperature > 390 \/ bedData.temperature < 355
            THEN "critical" ELSE "medium",
            <<95, 100>>, <<"Abnormal temperature", bedData.temperature>>)
  ELSE IF bedData.heartRate > 120 \/ bedData.heartRate < 50
  THEN Risk("vitals",
            IF bedData.heartRate > 140 \/ bedData.heartRate < 45 THEN "critical" ELSE "high",
            <<95, 100>>, <<"Abnormal heart rate", bedData.heartRate>>)
  ELSE IF bedData.respiratoryRate > 24 \/ bedData.respiratoryRate < 12
  THEN Risk("vitals",
            IF bedData.respiratoryRate > 28 \/ bedData.respiratoryRate < 10
            THEN "critical" ELSE "medium",
            <<95, 100>>, <<"Abnormal respiratory rate", bedData.respiratoryRate>>)
  ELSE Null

checkVitalsRisk(bedData) ==
  IF bedData.heartRate > 120 \/ bedData.heartRate < 50
  THEN Risk("vitals",
            IF bedData.heartRate > 140 \/ bedData.heartRate < 45 THEN "critical" ELSE "high",
            <<95, 100>>, <<"Abnormal heart rate", bedData.heartRate>>)
  ELSE IF bedData.temperature > 385 \/ bedData.temperature < 360
  THEN Risk("vitals",
            IF bedData.temperature > 390 \/ bedData.temperature < 355
            THEN "critical" ELSE "medium",
            <<95, 100>>, <<"Abnormal temperature", bedData.temperature>>)
  ELSE IF bedData.respiratoryRate > 24 \/ bedData.respiratoryRate < 12
  THEN Risk("vitals",
            IF bedData.respiratoryRate > 28 \/ bedData.respiratoryRate < 10
            THEN "critical" ELSE "medium",
            <<95, 100>>, <<"Abnormal respiratory rate", bedData.respiratoryRate>>)
  ELSE Null

(***************************************************************************)
(* Poses the pose model hands over.  Seven of the keypoint names are read  *)
(* by the detectors; a pose lists them in the pose model's order.          *)
(***************************************************************************)
Body(nose, ls, rs, lw, rw, lh, rh, tag) ==
  PoseData(<< Keypoint("nose", nose[1], nose[2], nose[3]),
              Keypoint("left_shoulder", ls[1], ls[2], ls[3]),
              Keypoint("right_shoulder", rs[1], rs[2], rs[3]),
              Keypoint("left_wrist", lw[1], lw[2], lw[3]),
              Keypoint("right_wrist", rw[1], rw[2], rw[3]),
              Keypoint("left_hip", lh[1], lh[2], lh[3]),
              Keypoint("right_hip", rh[1], rh[2], rh[3]) >>, tag)

Without(pose, names) ==
  PoseData(SelectSeq(pose.keypoints, LAMBDA kp : kp.name \notin names), pose.score)

\* upright, hips inside the bed area: nothing fires
PoseCalm ==
  Body(<<400, 170, 90>>, <<380, 200, 90>>, <<420, 200, 90>>,
       <<370, 280, 90>>, <<430, 280, 90>>, <<385, 300, 90>>, <<415, 300, 90>>, 90)
\* upright, hips left of the bed area, both wrists 300 px from PoseCalm's
PoseAway ==
  Body(<<100, 170, 90>>, <<80, 200, 90>>, <<120, 200, 90>>,
       <<70, 280, 90>>, <<130, 280, 90>>, <<85, 300, 90>>, <<115, 300, 90>>, 90)
\* lying across the bed, nose below the shoulder line: aspectRatio 150
PoseFallen ==
  Body(<<260, 315, 90>>, <<300, 300, 90>>, <<300, 320, 90>>,
       <<370, 280, 90>>, <<430, 280, 90>>, <<450, 300, 90>>, <<450, 320, 90>>, 90)
\* the same, the nose reported with score exactly 0.3
PoseFallenDimNose ==
  Body(<<260, 315, 30>>, <<300, 300, 90>>, <<300, 320, 90>>,
       <<370, 280, 90>>, <<430, 280, 90>>, <<450, 300, 90>>, <<450, 320, 90>>, 90)
\* shoulders tilted by 60 px over a body length of 90, head above them
PoseDistress ==
  Body(<<400, 170, 90>>, <<380, 180, 90>>, <<420, 240, 90>>,
       <<370, 280, 90>>, <<430, 280, 90>>, <<385, 300, 90>>, <<415, 300, 90>>, 90)
\* PoseAway with the right hip dim, the left wrist missing, the nose missing
PoseAwayPartial ==
  Without(Body(<<100, 170, 90>>, <<80, 180, 90>>, <<120, 240, 90>>,
               <<70, 280, 90>>, <<130, 280, 90>>, <<85, 300, 90>>, <<115, 300, 20>>, 90),
          {"left_wrist", "nose"})
\* no keypoints at all
PoseEmpty == PoseData(<< >>, 0)

Tagged(pose, tag) == PoseData(pose.keypoints, tag)

(***************************************************************************)
(* The pages and the monitor sessions.  poseHistory and detector are       *)
(* module-level state: one copy per page.  Sessions 1 and 2 are            *)
(* PatientMonitor instances mounted one after the other on page 1 (App     *)
(* renders at most one), session 3 is a monitor on a second page.          *)
(***************************************************************************)
Tabs == {1, 2}
Sessions == {1, 2, 3}
TabOf(s) == IF s = 3 THEN 2 ELSE 1
Patients == {"pA", "pB"}
\* the open Dashboard pages
Dashboards == {1, 2}

NoBedData == [heartRate |-> 0, isInBed |-> FALSE, temperature |-> 0, respiratoryRate |-> 0]

\* what one saveAlert call did: the outcome of its dedup query, whether the
\* query returned rows, the outcome of its insert, whether it called
\* console.error, whether its row reached the table
NoSave == [type |-> "none", q |-> "none", matched |-> FALSE, ins |-> "none",
           logged |-> FALSE, inserted |-> FALSE]

MonInit ==
  [life |-> "new",          \* new, mounted, unmounted
   pc |-> "idle",           \* where the instance's async code is suspended
   patient |-> "pA",        \* the patient prop of the latest render
   patient0 |-> "pA",       \* the patient the effect's closures captured
   stream |-> "none",       \* none, live, stopped: the camera stream
   init |-> "none",         \* none, pending, ok, failed: its initializePoseDetector call
   error |-> FALSE,         \* the error state: the video and canvas are not rendered
   rafRef |-> FALSE,        \* animationFrameRef.current is set
   pose |-> Null, allRisks |-> << >>, idx |-> 0, bedData |-> NoBedData,
   cutoff |-> 0,            \* the created_at bound of the dedup query in flight
   seen |-> 0,              \* rows in the alerts table when the dedup query was answered
   cycles |-> 0,            \* detection cycles started
   save |-> NoSave,         \* the saveAlert call in flight
   done |-> NoSave,         \* the saveAlert call that completed last in this cycle
   issued |-> 0,            \* monitoring_sessions inserts issued in this cycle
   stale |-> FALSE]         \* the last analyzeRisks read an entry of another patient

\* A Dashboard page is its `alerts` state (line 7) and its store calls in
\* flight, in the order they were made.  A loadData call first awaits both
\* selects of line 21 (phase "selects"); once the alerts select is answered
\* it holds the answer and awaits the patients select (phase "patients").
\* An acknowledgeAlert or resolveAlert call awaits its update (phase
\* "update"), which carries the alert's id and the time of the click.
\* `made` counts the calls the interval and the operator have made.
DashInit == [alerts |-> << >>, calls |-> << >>, made |-> 0]

InitStore ==
  /\ alerts = << >>
  /\ msessions = [n |-> 0, last |-> Null]
  /\ now = 0
  /\ dash = [d \in Dashboards |-> DashInit]
  /\ errlog = ""

InitMonitors ==
  /\ detector = [t \in Tabs |-> FALSE]
  /\ histOwner = [t \in Tabs |-> << >>]
  /\ mon = [s \in Sessions |-> MonInit]

NoCall == [op |-> "none", afterClear |-> FALSE, pose |-> Null, list |-> << >>,
           threw |-> FALSE, cleared |-> << >>]

(***************************************************************************)
(* The detection layer alone: riskDetection.ts driven through its three    *)
(* exports on page 1's window.                                             *)
(***************************************************************************)
MaxCalls == 3

DetectPoses == {PoseCalm, PoseAway, PoseFallen, PoseFallenDimNose, PoseDistress,
                PoseAwayPartial, PoseEmpty}

\* n poses told apart by their score field, alternating two postures
Stream(n) == [i \in 1..n |-> Tagged(IF i % 2 = 0 THEN PoseCalm ELSE PoseAway, i)]
Repeat(pose, n) == [i \in 1..n |-> pose]

RECURSIVE Replay(_, _, _)
Replay(poses, stream, i) ==
  IF i > Len(stream) THEN poses
  ELSE Replay(addPoseToHistory(poses, stream[i]), stream, i + 1)

\* what has been appended to the window before the calls the model enumerates
SeedStreams == { << >>, Stream(maxHistory - 1), Stream(maxHistory + 2),
                 Repeat(PoseAway, 11) }

InitDetect ==
  /\ InitStore
  /\ InitMonitors
  /\ \E stream \in SeedStreams :
       /\ poseHistory = [t \in Tabs |-> IF t = 1 THEN Replay(<< >>, stream, 1) ELSE << >>]
       /\ appended = stream
  /\ risks = NoCall
  /\ nCalls = 0

DetectFrame == <<histOwner, detector, alerts, msessions, now, mon, dash, errlog>>

CallAddPoseToHistory(pose) ==
  /\ nCalls < MaxCalls
  /\ poseHistory' = [poseHistory EXCEPT ![1] = addPoseToHistory(@, pose)]
  /\ appended' = Append(appended, pose)
  /\ risks' = [NoCall EXCEPT !.op = "add", !.pose = pose, !.cleared = risks.cleared]
  /\ nCalls' = nCalls + 1
  /\ UNCHANGED DetectFrame

CallAnalyzeRisks(pose) ==
  /\ nCalls < MaxCalls
  /\ \E r \in {analyzeRisks(poseHistory[1], pose, bedArea)} :
         /\ poseHistory' = [poseHistory EXCEPT ![1] = r.poses]
         /\ risks' = [op |-> "analyze", afterClear |-> risks.op = "clear", pose |-> pose,
                      list |-> r.risks, threw |-> r.threw, cleared |-> risks.cleared]
  /\ appended' = Append(appended, pose)
  /\ nCalls' = nCalls + 1
  /\ UNCHANGED DetectFrame

CallClearPoseHistory ==
  /\ risks.op # "clear"
  /\ poseHistory' = [poseHistory EXCEPT ![1] = clearPoseHistory(@)]
  /\ appended' = << >>
  /\ risks' = [NoCall EXCEPT !.op = "clear", !.cleared = poseHistory[1]]
  /\ UNCHANGED nCalls
  /\ UNCHANGED DetectFrame

NextDetect ==
  \/ \E pose \in DetectPoses : CallAddPoseToHistory(pose)
  \/ \E pose \in DetectPoses : CallAnalyzeRisks(pose)
  \/ CallClearPoseHistory

SpecDetect == InitDetect /\ [][NextDetect]_vars

Types(list) == {list[i].type : i \in DOMAIN list}

Usable(pose, name) ==
  \E i \in DOMAIN pose.keypoints :
    pose.keypoints[i].name = name /\ pose.keypoints[i].score > 30

AllUsable(pose, names) == \A name \in names : Usable(pose, name)

\* C1: the window of page 1 never holds more than 30 poses, and it is exactly
\* the last min(n, 30) of the n poses appended since the last clear, oldest first.
C1_WindowIsLast30 ==
  /\ Len(poseHistory[1]) <= 30
  /\ poseHistory[1] = SliceLast(appended, 30)

\* 35 poses appended, the last of them by calls of the model: poses 6..35 are left
C1_Witness ==
  /\ Len(appended) = 35
  /\ nCalls = MaxCalls
  /\ poseHistory[1] = SubSeq(appended, 6, 35)
  /\ risks.op \in {"add", "analyze"}

\* C7: the analyzeRisks call that immediately follows clearPoseHistory returns
\* neither a wandering nor an aggression detection.
C7_NoHistoryRiskAfterClear ==
  (risks.op = "analyze" /\ risks.afterClear)
    => Types(risks.list) \cap {"wandering", "aggression"} = {}

\* a clear followed by analyzeRisks, where the same call on the window as it
\* was before the clear returns a wandering or an aggression detection
C7_Witness ==
  /\ risks.op = "analyze"
  /\ risks.afterClear
  /\ Types(analyzeRisks(risks.cleared, risks.pose, bedArea).risks)
       \cap {"wandering", "aggression"} # {}

\* C8: analyzeRisks never throws, and a detector whose required keypoint is
\* absent or has score <= 0.3 in the current pose contributes no detection.
C8_MissingKeypointNoDetection ==
  risks.op = "analyze" =>
    /\ ~risks.threw
    /\ ~AllUsable(risks.pose, {"nose", "left_hip", "right_hip",
                               "left_shoulder", "right_shoulder"})
         => Types(risks.list) \cap {"fall", "emotion"} = {}
    /\ ~AllUsable(risks.pose, {"left_hip", "right_hip"})
         => "wandering" \notin Types(risks.list)
    /\ ~AllUsable(risks.pose, {"left_wrist", "right_wrist"})
         => "aggression" \notin Types(risks.list)

\* a pose without usable hips, wrists and nose analysed on a window on which a
\* fully visible out-of-bed pose fires wandering
C8_Witness ==
  /\ risks.op = "analyze"
  /\ risks.pose = PoseAwayPartial
  /\ ~risks.threw
  /\ detectWandering(PoseAway, bedArea, poseHistory[1]) # Null

(***************************************************************************)
(* PatientMonitor.tsx, Dashboard.tsx and the store                         *)
(***************************************************************************)
MaxCycles == 2
MaxTime == 7500

\* what a store call can come back with: a result, {data: null, error} without
\* a throw, or a rejected promise
Outcomes == {"ok", "error", "throw"}

\* PoseDistress standing left of the bed area
PoseDistressAway ==
  Body(<<100, 170, 90>>, <<80, 180, 90>>, <<120, 240, 90>>,
       <<70, 280, 90>>, <<130, 280, 90>>, <<85, 300, 90>>, <<115, 300, 90>>, 90)

FramePoses == {PoseFallen, PoseDistressAway}
\* the three Math.random() draws of one generateSmartBedData call
RandomDraws == {<<0, 0, 0>>, <<999, 999, 999>>}

\* videoRef.current and canvasRef.current: set while the instance is mounted
\* and renders the video and the canvas (not the error panel)
Refs(s) == mon[s].life = "mounted" /\ ~mon[s].error

\* pose.keypoints.find(kp => kp.name === name), PatientMonitor.tsx lines 106-107
FindByName(pose, name) ==
  LET hit == {i \in DOMAIN pose.keypoints : pose.keypoints[i].name = name}
  IN  IF hit = {} THEN Undefined ELSE pose.keypoints[Min(hit)]

\* lines 109-119
patientInBed(pose, area) ==
  LET leftHip == FindByName(pose, "left_hip")
      rightHip == FindByName(pose, "right_hip")
  IN  IF /\ leftHip # Undefined
         /\ rightHip # Undefined
         /\ leftHip.score > ScoreThreshold
         /\ rightHip.score > ScoreThreshold
      THEN InBedArea(leftHip.x + rightHip.x, leftHip.y + rightHip.y, area)
      ELSE FALSE

detectFrameVitals_First(a, bedData, vitalsRisk) ==
  [poses |-> a.poses,
   threw |-> a.threw,
   bedData |-> bedData,
   allRisks |-> IF vitalsRisk # Null THEN <<vitalsRisk>> \o a.risks ELSE a.risks]

\* lines 129-132
detectFrameVitals(a, bedData, vitalsRisk) ==
  [poses |-> a.poses,
   threw |-> a.threw,
   bedData |-> bedData,
   allRisks |-> IF vitalsRisk # Null THEN Append(a.risks, vitalsRisk) ELSE a.risks]

\* lines 124-129
detectFrameBedData(a, bedData) == detectFrameVitals(a, bedData, checkVitalsRisk(bedData))

detectFrameFlags_Swapped(a, pose, rnd) ==
  detectFrameBedData(a, generateSmartBedData(patientInBed(pose, bedArea),
                                             "emotion" \in Types(a.risks),
                                             "aggression" \in Types(a.risks), rnd))

\* lines 102-124
detectFrameFlags(a, pose, rnd) ==
  detectFrameBedData(a, generateSmartBedData(patientInBed(pose, bedArea),
                                             "aggression" \in Types(a.risks),
                                             "emotion" \in Types(a.risks), rnd))

\* detectFrame lines 101-132: the synchronous part of a cycle
detectFrameRisks(poses, pose, rnd) ==
  detectFrameFlags(analyzeRisks(poses, pose, bedArea), pose, rnd)

\* the rows the dedup query of saveAlert selects, lines 154-160
existingAlerts_StrictAge(store, patientId, type, cutoff) ==
  {i \in DOMAIN store :
     /\ store[i].patient_id = patientId
     /\ store[i].alert_type = type
     /\ store[i].status = "active"
     /\ store[i].created_at > cutoff}

existingAlerts(store, patientId, type, cutoff) ==
  {i \in DOMAIN store :
     /\ store[i].patient_id = patientId
     /\ store[i].alert_type = type
     /\ store[i].status = "active"
     /\ store[i].created_at >= cutoff}

\* the row of lines 166-173, with the table's defaults (acknowledged_at and
\* resolved_at are null, written << >>; a set time t is <<t>>); by and seen
\* are not columns: the session that inserted the row, and the number of
\* rows the table held when that session's dedup query was answered
AlertRow(patientId, risk, at, s, seen) ==
  [patient_id |-> patientId, alert_type |-> risk.type, severity |-> risk.severity,
   description |-> risk.description, confidence |-> risk.confidence,
   status |-> "active", created_at |-> at, acknowledged_at |-> << >>,
   resolved_at |-> << >>, by |-> s, seen |-> seen]

\* the catch block of detectFrame and the line after it (143-146)
detectFrameEnd_NoReschedule(m) ==
  [m EXCEPT !.pc = "ended", !.pose = Null, !.allRisks = << >>, !.idx = 0,
            !.bedData = NoBedData, !.cutoff = 0, !.seen = 0, !.save = NoSave,
            !.done = NoSave, !.issued = 0]

\* the end of a cycle, line 146: the locals go, the next frame is requested
detectFrameEnd(m) ==
  [m EXCEPT !.pc = "raf", !.rafRef = TRUE, !.pose = Null, !.allRisks = << >>,
            !.idx = 0, !.bedData = NoBedData, !.cutoff = 0, !.seen = 0,
            !.save = NoSave, !.done = NoSave, !.issued = 0]

\* saveAlert(risk) up to its first await: the dedup query is built and sent
saveAlertStart(m, i, t) ==
  [m EXCEPT !.pc = "query", !.idx = i, !.cutoff = t - 5000,
            !.save = [NoSave EXCEPT !.type = m.allRisks[i].type]]

\* saveMonitoringSession(pose, bedData) up to its await (line 140): the
\* insert is sent
saveMonitoringSessionStart(m) ==
  [m EXCEPT !.pc = "session", !.save = NoSave, !.issued = @ + 1]

saveAlertReturn_EndsCycle(m, t) == detectFrameEnd(m)

\* a saveAlert call has returned: the for loop of lines 135-137 goes on, then
\* saveMonitoringSession is called
saveAlertReturn(m, t) ==
  LET fin == [m EXCEPT !.done = m.save]
  IN  IF m.idx < Len(m.allRisks)
      THEN [saveAlertStart(fin, m.idx + 1, t) EXCEPT !.done = m.save]
      ELSE saveMonitoringSessionStart(fin)

SysFrame == <<appended, risks, nCalls>>

InitSys ==
  /\ InitStore
  /\ InitMonitors
  /\ poseHistory = [t \in Tabs |-> << >>]
  /\ appended = << >>
  /\ risks = NoCall
  /\ nCalls = 0

\* App renders <PatientMonitor patient=p />
Mount(s, p) ==
  /\ mon[s].life = "new"
  /\ \A o \in Sessions \ {s} :
       TabOf(o) = TabOf(s) => /\ mon[o].life # "mounted"
                              /\ (o < s => mon[o].life = "unmounted")
  /\ mon' = [mon EXCEPT ![s] = [@ EXCEPT !.life = "mounted", !.patient = p,
                                         !.patient0 = p, !.pc = "setup",
                                         !.init = "pending"]]
  /\ UNCHANGED <<poseHistory, histOwner, detector, alerts, msessions, now, dash, errlog>>
  /\ UNCHANGED SysFrame

\* a re-render with another patient prop; the effect has no dependencies
SetPatient(s, p) ==
  /\ mon[s].life = "mounted"
  /\ p # mon[s].patient
  /\ mon' = [mon EXCEPT ![s].patient = p]
  /\ UNCHANGED <<poseHistory, histOwner, detector, alerts, msessions, now, dash, errlog>>
  /\ UNCHANGED SysFrame

\* detectFrame from its start to its first await (lines 92-95)
detectFrameStart(s, m) ==
  IF ~Refs(s) THEN [m EXCEPT !.pc = "ended"]
  ELSE IF ~detector'[TabOf(s)]
  THEN detectFrameEnd([m EXCEPT !.cycles = @ + 1])
  ELSE [m EXCEPT !.pc = "pose", !.cycles = @ + 1]

\* initializePoseDetector of session s: createDetector resolved and
\* `detector` is assigned (line 28), while getUserMedia is still pending or
\* after Promise.all has rejected and the catch block has run
DetectorReady(s) ==
  /\ mon[s].init = "pending"
  /\ detector' = [detector EXCEPT ![TabOf(s)] = TRUE]
  /\ mon' = [mon EXCEPT ![s].init = "ok"]
  /\ UNCHANGED <<poseHistory, histOwner, alerts, msessions, now, dash, errlog>>
  /\ UNCHANGED SysFrame

\* setupCamera: Promise.all resolved (lines 40-69).  The promise that settles
\* last is getUserMedia (init is ok already), or initializePoseDetector,
\* whose assignment of `detector` and the continuation of setupCamera then
\* run in one turn of the event loop
SetupResolve(s) ==
  /\ mon[s].pc = "setup"
  /\ mon[s].init \in {"pending", "ok"}
  /\ detector' = [detector EXCEPT ![TabOf(s)] = TRUE]
  /\ mon' = [mon EXCEPT ![s] = detectFrameStart(s, [@ EXCEPT !.stream = "live",
                                                             !.init = "ok"])]
  /\ UNCHANGED <<poseHistory, histOwner, alerts, msessions, now, dash, errlog>>
  /\ UNCHANGED SysFrame

\* which promise of Promise.all rejected first
SetupFailures == {"getUserMedia", "initializePoseDetector"}

\* initializePoseDetector after the rejection: failed if it is the one that
\* rejected, otherwise as it was (pending or ok)
InitAfterReject(m, failure) ==
  IF failure = "initializePoseDetector" THEN "failed" ELSE m.init

SetupReject_StartsAnyway(s, failure) ==
  /\ mon[s].pc = "setup"
  /\ mon[s].init \in (IF failure = "getUserMedia" THEN {"pending", "ok"} ELSE {"pending"})
  /\ detector' = detector
  /\ mon' = [mon EXCEPT ![s] =
               detectFrameStart(s, [@ EXCEPT !.error = (mon[s].life = "mounted"),
                                             !.init = InitAfterReject(mon[s], failure)])]
  /\ UNCHANGED <<poseHistory, histOwner, alerts, msessions, now, dash, errlog>>
  /\ UNCHANGED SysFrame

\* setupCamera: getUserMedia or initializePoseDetector rejected and the catch
\* block runs (lines 70-73); `detector` is not touched
SetupReject(s, failure) ==
  /\ mon[s].pc = "setup"
  /\ mon[s].init \in (IF failure = "getUserMedia" THEN {"pending", "ok"} ELSE {"pending"})
  /\ detector' = detector
  /\ mon' = [mon EXCEPT ![s] = [@ EXCEPT !.pc = "ended",
                                         !.error = (mon[s].life = "mounted"),
                                         !.init = InitAfterReject(mon[s], failure)]]
  /\ UNCHANGED <<poseHistory, histOwner, alerts, msessions, now, dash, errlog>>
  /\ UNCHANGED SysFrame

\* the animation frame callback runs detectFrame
FrameCallback(s) ==
  /\ mon[s].pc = "raf"
  /\ mon[s].cycles < MaxCycles \/ ~Refs(s)
  /\ detector' = detector
  /\ mon' = [mon EXCEPT ![s] = detectFrameStart(s, @)]
  /\ errlog' = IF Refs(s) /\ ~detector[TabOf(s)] THEN "Detection error:" ELSE errlog
  /\ UNCHANGED <<poseHistory, histOwner, alerts, msessions, now, dash>>
  /\ UNCHANGED SysFrame

\* detectPose rejected (estimatePoses failed): caught at line 142
PoseReject(s) ==
  /\ mon[s].pc = "pose"
  /\ errlog' = "Detection error:"
  /\ mon' = [mon EXCEPT ![s] = detectFrameEnd(@)]
  /\ UNCHANGED <<poseHistory, histOwner, detector, alerts, msessions, now, dash>>
  /\ UNCHANGED SysFrame

\* detectPose resolved with null, or with a pose while the canvas is gone (line 97)
PoseSkip(s) ==
  /\ mon[s].pc = "pose"
  /\ \E pose \in FramePoses \cup {Null} :
       /\ pose = Null \/ ~Refs(s)
       /\ mon' = [mon EXCEPT ![s] = detectFrameEnd(@)]
  /\ UNCHANGED <<poseHistory, histOwner, detector, alerts, msessions, now, dash, errlog>>
  /\ UNCHANGED SysFrame

\* the instance after lines 97-136: in the catch block, in the first saveAlert,
\* or in saveMonitoringSession when the list is empty
detectFrameSaves_OnlyWithRisks(m, c, t) ==
  IF c.threw THEN detectFrameEnd(m)
  ELSE IF Len(c.allRisks) > 0 THEN saveAlertStart(m, 1, t)
  ELSE detectFrameEnd(m)

detectFrameSaves(m, c, t) ==
  IF c.threw THEN detectFrameEnd(m)
  ELSE IF Len(c.allRisks) > 0 THEN saveAlertStart(m, 1, t)
  ELSE saveMonitoringSessionStart(m)

\* detectPose resolved with a pose: lines 97-136 up to the next await
PoseResolve(s, pose, rnd) ==
  /\ mon[s].pc = "pose"
  /\ Refs(s)
  /\ \E c \in {detectFrameRisks(poseHistory[TabOf(s)], pose, rnd)} :
     \E owners \in {addPoseToHistory(histOwner[TabOf(s)],
                                     [session |-> s, patient |-> mon[s].patient])} :
       /\ poseHistory' = [poseHistory EXCEPT ![TabOf(s)] = c.poses]
       /\ histOwner' = [histOwner EXCEPT ![TabOf(s)] = owners]
       /\ mon' = [mon EXCEPT ![s] =
                    detectFrameSaves(
                      [@ EXCEPT !.pose = pose, !.allRisks = c.allRisks,
                                !.bedData = c.bedData,
                                !.stale = \E i \in DOMAIN owners :
                                            owners[i].patient # mon[s].patient],
                      c, now)]
       /\ errlog' = IF c.threw THEN "Detection error:" ELSE errlog
  /\ UNCHANGED <<detector, alerts, msessions, now, dash>>
  /\ UNCHANGED SysFrame

\* the dedup query of saveAlert is answered (lines 154-164, 174-176)
QueryRespond(s, outcome) ==
  /\ mon[s].pc = "query"
  /\ LET m == mon[s]
         found == existingAlerts(alerts, m.patient0, m.allRisks[m.idx].type, m.cutoff)
         q == [m.save EXCEPT !.q = outcome,
                             !.matched = (outcome = "ok" /\ found # {}),
                             !.logged = (outcome = "throw")]
     IN  /\ mon' = [mon EXCEPT ![s] =
                      IF outcome = "throw" \/ (outcome = "ok" /\ found # {})
                      THEN saveAlertReturn([m EXCEPT !.save = q], now)
                      ELSE [m EXCEPT !.save = q, !.pc = "insert", !.seen = Len(alerts)]]
         /\ errlog' = IF outcome = "throw" THEN "Failed to save alert:" ELSE errlog
  /\ UNCHANGED <<poseHistory, histOwner, detector, alerts, msessions, now, dash>>
  /\ UNCHANGED SysFrame

\* the insert of saveAlert is answered (lines 166-176)
InsertRespond_Upsert(s, outcome) ==
  /\ mon[s].pc = "insert"
  /\ LET m == mon[s]
         q == [m.save EXCEPT !.ins = outcome,
                             !.inserted = (outcome = "ok"),
                             !.logged = (outcome = "throw")]
         row == AlertRow(m.patient0, m.allRisks[m.idx], now, s, m.seen)
         same == {i \in DOMAIN alerts : /\ alerts[i].patient_id = row.patient_id
                                        /\ alerts[i].alert_type = row.alert_type}
     IN  /\ alerts' = IF outcome # "ok" THEN alerts
                      ELSE IF same = {} THEN Append(alerts, row)
                      ELSE [i \in DOMAIN alerts |-> IF i \in same THEN row ELSE alerts[i]]
         /\ mon' = [mon EXCEPT ![s] = saveAlertReturn([m EXCEPT !.save = q], now)]
         /\ errlog' = IF outcome = "throw" THEN "Failed to save alert:" ELSE errlog
  /\ UNCHANGED <<poseHistory, histOwner, detector, msessions, now, dash>>
  /\ UNCHANGED SysFrame

InsertRespond(s, outcome) ==
  /\ mon[s].pc = "insert"
  /\ LET m == mon[s]
         q == [m.save EXCEPT !.ins = outcome,
                             !.inserted = (outcome = "ok"),
                             !.logged = (outcome = "throw")]
     IN  /\ alerts' = IF outcome = "ok"
                      THEN Append(alerts, AlertRow(m.patient0, m.allRisks[m.idx], now, s,
                                                   m.seen))
                      ELSE alerts
         /\ mon' = [mon EXCEPT ![s] = saveAlertReturn([m EXCEPT !.save = q], now)]
         /\ errlog' = IF outcome = "throw" THEN "Failed to save alert:" ELSE errlog
  /\ UNCHANGED <<poseHistory, histOwner, detector, msessions, now, dash>>
  /\ UNCHANGED SysFrame

\* saveMonitoringSession (lines 179-191) is answered, then line 146
SessionRespond(s, outcome) ==
  /\ mon[s].pc = "session"
  /\ LET m == mon[s]
     IN  /\ msessions' = IF outcome = "ok"
                         THEN [n |-> msessions.n + 1,
                               last |-> [patient_id |-> m.patient0,
                                         heart_rate |-> m.bedData.heartRate,
                                         is_in_bed |-> m.bedData.isInBed,
                                         movement_level |-> 50,
                                         pose_data |-> m.pose, by |-> s]]
                         ELSE msessions
         /\ mon' = [mon EXCEPT ![s] = detectFrameEnd(m)]
         /\ errlog' = IF outcome = "throw" THEN "Failed to save monitoring session:"
                      ELSE errlog
  /\ UNCHANGED <<poseHistory, histOwner, detector, alerts, now, dash>>
  /\ UNCHANGED SysFrame

\* the effect cleanup (lines 78-87); React has detached the refs before it runs
Unmount(s) ==
  /\ mon[s].life = "mounted"
  /\ mon' = [mon EXCEPT ![s] =
               [@ EXCEPT !.life = "unmounted",
                         !.pc = IF mon[s].pc = "raf" /\ mon[s].rafRef THEN "ended" ELSE @,
                         !.stream = IF @ = "live" THEN "stopped" ELSE @]]
  /\ poseHistory' = [poseHistory EXCEPT ![TabOf(s)] = clearPoseHistory(@)]
  /\ histOwner' = [histOwner EXCEPT ![TabOf(s)] = clearPoseHistory(@)]
  /\ UNCHANGED <<detector, alerts, msessions, now, dash, errlog>>
  /\ UNCHANGED SysFrame

\* what the alerts query of loadData returns: the 20 newest rows (lines 22-38)
alertsResponse(store) ==
  [i \in {j \in DOMAIN store : j > Len(store) - 20} |-> store[i].status]

MaxInFlight == 2
\* a page makes no call while MaxInFlight of its calls are in flight; the
\* calls of the interval and the operator followed on one page: where one
\* page is open, where two are
MaxDashCalls == 3
MaxDashCallsEach == 2
LoadCall ==
  [fn |-> "loadData", phase |-> "selects", hasData |-> FALSE, data |-> << >>,
   id |-> 0, at |-> 0]
UpdateCall(fn, alertId, t) ==
  [fn |-> fn, phase |-> "update", hasData |-> FALSE, data |-> << >>,
   id |-> alertId, at |-> t]
\* the calls in flight once call k has settled
Settled(calls, k) == SubSeq(calls, 1, k - 1) \o SubSeq(calls, k + 1, Len(calls))

\* Dashboard.loadData up to its await (lines 19-46): both selects are sent.
\* The effect of lines 13-17 calls it on mount and every 3 s.
loadData(d, budget) ==
  /\ Len(dash[d].calls) < MaxInFlight
  /\ dash[d].made < budget
  /\ dash' = [dash EXCEPT ![d].calls = Append(@, LoadCall), ![d].made = @ + 1]
  /\ UNCHANGED <<alerts, errlog>>
  /\ UNCHANGED <<poseHistory, histOwner, detector, msessions, now, mon>>
  /\ UNCHANGED SysFrame

\* the alerts select of loadData call k is answered (lines 22-38): with rows,
\* or with data null and an error; Promise.all goes on waiting for the
\* patients select.  A select that rejects rejects Promise.all at once: the
\* catch of lines 57-60 runs and the call is over.
loadDataAlerts(d, k, outcome) ==
  /\ k \in DOMAIN dash[d].calls
  /\ dash[d].calls[k].phase = "selects"
  /\ dash' = [dash EXCEPT ![d].calls =
                IF outcome = "throw" THEN Settled(@, k)
                ELSE [@ EXCEPT ![k] =
                        [@ EXCEPT !.phase = "patients",
                                  !.hasData = (outcome = "ok"),
                                  !.data = IF outcome = "ok" THEN alertsResponse(alerts)
                                           ELSE << >>]]]
  /\ errlog' = IF outcome = "throw" THEN "Failed to load data:" ELSE errlog
  /\ UNCHANGED alerts
  /\ UNCHANGED <<poseHistory, histOwner, detector, msessions, now, mon>>
  /\ UNCHANGED SysFrame

\* the patients select of loadData call k is answered (had it been answered
\* first, nothing would have happened until the alerts select was):
\* Promise.all settles and lines 48-60 run.  setAlerts is called when the alerts answer held
\* data (line 48), with the rows that answer read, whatever the table holds
\* by now; a rejected select ends in the catch.
loadDataReturn(d, k, outcome) ==
  /\ k \in DOMAIN dash[d].calls
  /\ dash[d].calls[k].phase = "patients"
  /\ dash' = [dash EXCEPT ![d].alerts =
                  IF outcome # "throw" /\ dash[d].calls[k].hasData
                  THEN dash[d].calls[k].data ELSE @,
                ![d].calls = Settled(@, k)]
  /\ errlog' = IF outcome = "throw" THEN "Failed to load data:" ELSE errlog
  /\ UNCHANGED alerts
  /\ UNCHANGED <<poseHistory, histOwner, detector, msessions, now, mon>>
  /\ UNCHANGED SysFrame

\* the Acknowledge button of an alert the page shows as active (lines
\* 293-297): acknowledgeAlert up to its await (lines 63-71), the update is
\* sent
acknowledgeAlert(d, alertId, budget) ==
  /\ alertId \in DOMAIN dash[d].alerts
  /\ dash[d].alerts[alertId] = "active"
  /\ Len(dash[d].calls) < MaxInFlight
  /\ dash[d].made < budget
  /\ dash' = [dash EXCEPT ![d].calls =
                  Append(@, UpdateCall("acknowledgeAlert", alertId, now)),
                ![d].made = @ + 1]
  /\ UNCHANGED <<alerts, errlog>>
  /\ UNCHANGED <<poseHistory, histOwner, detector, msessions, now, mon>>
  /\ UNCHANGED SysFrame

\* the Resolve button of an alert the page shows as active or acknowledged
\* (lines 293-315): resolveAlert up to its await (lines 78-86)
resolveAlert(d, alertId, budget) ==
  /\ alertId \in DOMAIN dash[d].alerts
  /\ dash[d].alerts[alertId] \in {"active", "acknowledged"}
  /\ Len(dash[d].calls) < MaxInFlight
  /\ dash[d].made < budget
  /\ dash' = [dash EXCEPT ![d].calls =
                  Append(@, UpdateCall("resolveAlert", alertId, now)),
                ![d].made = @ + 1]
  /\ UNCHANGED <<alerts, errlog>>
  /\ UNCHANGED <<poseHistory, histOwner, detector, msessions, now, mon>>
  /\ UNCHANGED SysFrame

\* the row with the given id after the update of an acknowledgeAlert or
\* resolveAlert call: .update({status, acknowledged_at | resolved_at})
\* .eq('id', alertId), whatever the row's status is (lines 67-71, 82-86)
updateAlert(store, call) ==
  [store EXCEPT ![call.id] =
     IF call.fn = "acknowledgeAlert"
     THEN [@ EXCEPT !.status = "acknowledged", !.acknowledged_at = <<call.at>>]
     ELSE [@ EXCEPT !.status = "resolved", !.resolved_at = <<call.at>>]]

\* the update of call k is answered.  The store has changed the row unless
\* it answers with an error; the function goes on with loadData(), which it
\* does not await (lines 72, 87), also after an error that was returned and
\* not thrown.  A rejected update ends in the catch (lines 73-75, 88-90)
\* and nothing is reloaded.
updateRespond(d, k, outcome) ==
  /\ k \in DOMAIN dash[d].calls
  /\ dash[d].calls[k].phase = "update"
  /\ alerts' = IF outcome = "ok" THEN updateAlert(alerts, dash[d].calls[k]) ELSE alerts
  /\ dash' = [dash EXCEPT ![d].calls =
                IF outcome = "throw" THEN Settled(@, k)
                ELSE Append(Settled(@, k), LoadCall)]
  /\ errlog' = IF outcome # "throw" THEN errlog
               ELSE IF dash[d].calls[k].fn = "acknowledgeAlert"
               THEN "Failed to acknowledge alert:"
               ELSE "Failed to resolve alert:"
  /\ UNCHANGED <<poseHistory, histOwner, detector, msessions, now, mon>>
  /\ UNCHANGED SysFrame

\* the steps of one Dashboard page and its operator, its store calls
\* answered by one of `outs`, `budget` calls of theirs followed
DashboardStep(d, outs, budget) ==
  \/ loadData(d, budget)
  \/ \E k \in 1..MaxInFlight, outcome \in outs : loadDataAlerts(d, k, outcome)
  \/ \E k \in 1..MaxInFlight, outcome \in outs : loadDataReturn(d, k, outcome)
  \/ \E alertId \in 1..Len(alerts) : acknowledgeAlert(d, alertId, budget)
  \/ \E alertId \in 1..Len(alerts) : resolveAlert(d, alertId, budget)
  \/ \E k \in 1..MaxInFlight, outcome \in outs : updateRespond(d, k, outcome)

\* time passes, 2.5 s at a step
Tick ==
  /\ now < MaxTime
  /\ now' = now + 2500
  /\ UNCHANGED <<poseHistory, histOwner, detector, alerts, msessions, mon, dash, errlog>>
  /\ UNCHANGED SysFrame

\* the steps of one monitor: mounted for a patient of `pats`, handed poses of
\* `poses` and random draws of `draws`, its store calls answered by one of `outs`
MonitorStep(s, outs, poses, draws, pats) ==
  \/ \E p \in pats : Mount(s, p)
  \/ DetectorReady(s)
  \/ SetupResolve(s)
  \/ \E failure \in SetupFailures : SetupReject(s, failure)
  \/ FrameCallback(s)
  \/ PoseReject(s)
  \/ PoseSkip(s)
  \/ \E pose \in poses, rnd \in draws : PoseResolve(s, pose, rnd)
  \/ \E outcome \in outs : QueryRespond(s, outcome)
  \/ \E outcome \in outs : InsertRespond(s, outcome)
  \/ \E outcome \in outs : SessionRespond(s, outcome)

\* one monitor, no operator, store calls that can fail
NextSeq == MonitorStep(1, Outcomes, FramePoses, RandomDraws, {"pA"}) \/ Tick
SpecSeq == InitSys /\ [][NextSeq]_vars

\* one monitor and a dashboard operator
NextOps ==
  \/ MonitorStep(1, {"ok"}, {PoseFallen}, {<<0, 0, 0>>}, {"pA"})
  \/ DashboardStep(1, Outcomes, MaxDashCalls)
  \/ Tick
SpecOps == InitSys /\ [][NextOps]_vars

\* one monitor and two dashboards, each with its own view of the alerts
NextDash ==
  \/ MonitorStep(1, {"ok"}, {PoseFallen}, {<<0, 0, 0>>}, {"pA"})
  \/ \E d \in Dashboards : DashboardStep(d, Outcomes, MaxDashCallsEach)
SpecDash == InitSys /\ [][NextDash]_vars

\* one monitor on a patient who falls or stands distressed by the bed, and
\* a dashboard operator whose store calls can fail
NextWard ==
  \/ MonitorStep(1, {"ok"}, FramePoses, {<<0, 0, 0>>}, {"pA"})
  \/ DashboardStep(1, Outcomes, MaxDashCallsEach)
SpecWard == InitSys /\ [][NextWard]_vars

\* two monitors on two pages
NextRace ==
  \/ \E s \in {1, 3} : MonitorStep(s, {"ok"}, {PoseFallen}, {<<0, 0, 0>>}, {"pA"})
  \/ Tick
SpecRace == InitSys /\ [][NextRace]_vars

\* two monitor sessions in a row on one page
NextLife ==
  \/ \E s \in {1, 2} : MonitorStep(s, {"ok"}, {PoseFallen}, {<<0, 0, 0>>}, Patients)
  \/ \E s \in {1, 2} : Unmount(s)
  \/ \E s \in {1, 2}, p \in Patients : SetPatient(s, p)
SpecLife == InitSys /\ [][NextLife]_vars

\* one monitor that can be stopped, with the promises it awaits settling
NextFair ==
  \/ MonitorStep(1, Outcomes, FramePoses, {<<999, 999, 999>>}, {"pA"})
  \/ Unmount(1)
Settles(s) ==
  /\ WF_vars(PoseReject(s) \/ PoseSkip(s)
             \/ \E pose \in FramePoses : PoseResolve(s, pose, <<999, 999, 999>>))
  /\ WF_vars(\E outcome \in Outcomes : QueryRespond(s, outcome))
  /\ WF_vars(\E outcome \in Outcomes : InsertRespond(s, outcome))
  /\ WF_vars(\E outcome \in Outcomes : SessionRespond(s, outcome))
SpecFair == InitSys /\ [][NextFair]_vars /\ Settles(1)

\* one monitor handed a pose that fires nothing and a pose that fires fall,
\* store calls that can fail
NextSave == MonitorStep(1, Outcomes, {PoseCalm, PoseFallen}, {<<0, 0, 0>>}, {"pA"})
SpecSave == InitSys /\ [][NextSave]_vars

\* a monitor that has run maxHistory cycles on a calm patient, every store
\* call answered: the window is full, no alert was raised, the next frame is
\* requested
WarmWindow == [i \in 1..maxHistory |-> Tagged(PoseCalm, i)]
InitWarm ==
  /\ alerts = << >>
  /\ msessions = [n |-> maxHistory,
                  last |-> [patient_id |-> "pA",
                            heart_rate |-> generateSmartBedData(TRUE, FALSE, FALSE,
                                                                <<0, 0, 0>>).heartRate,
                            is_in_bed |-> TRUE, movement_level |-> 50,
                            pose_data |-> WarmWindow[maxHistory], by |-> 1]]
  /\ now = 0
  /\ dash = [d \in Dashboards |-> DashInit]
  /\ errlog = ""
  /\ detector = [t \in Tabs |-> t = 1]
  /\ poseHistory = [t \in Tabs |-> IF t = 1 THEN Replay(<< >>, WarmWindow, 1) ELSE << >>]
  /\ histOwner = [t \in Tabs |->
                    IF t = 1 THEN [i \in 1..maxHistory |-> [session |-> 1, patient |-> "pA"]]
                    ELSE << >>]
  /\ mon = [s \in Sessions |->
              IF s = 1 THEN [MonInit EXCEPT !.life = "mounted", !.pc = "raf",
                                            !.stream = "live", !.rafRef = TRUE,
                                            !.init = "ok"]
              ELSE MonInit]
  /\ appended = << >>
  /\ risks = NoCall
  /\ nCalls = 0

\* the steps of a running monitor
CycleStep(s, outs, poses, draws) ==
  \/ FrameCallback(s)
  \/ PoseReject(s)
  \/ PoseSkip(s)
  \/ \E pose \in poses, rnd \in draws : PoseResolve(s, pose, rnd)
  \/ \E outcome \in outs : QueryRespond(s, outcome)
  \/ \E outcome \in outs : InsertRespond(s, outcome)
  \/ \E outcome \in outs : SessionRespond(s, outcome)

NextWarm == CycleStep(1, Outcomes, FramePoses, {<<0, 0, 0>>})
SpecWarm == InitWarm /\ [][NextWarm]_vars

\* PoseAway with both wrists 200 px to the right
PoseAwayReach ==
  Body(<<100, 170, 90>>, <<80, 200, 90>>, <<120, 200, 90>>,
       <<270, 280, 90>>, <<330, 280, 90>>, <<85, 300, 90>>, <<115, 300, 90>>, 90)
\* lying left of the bed area, nose below the shoulder line, wrists as PoseAway
PoseFallenAway ==
  Body(<<20, 315, 90>>, <<50, 300, 90>>, <<50, 320, 90>>,
       <<70, 280, 90>>, <<130, 280, 90>>, <<150, 300, 90>>, <<150, 320, 90>>, 90)

\* a monitor that has run maxHistory cycles on a patient pacing beside the
\* bed and waving, while no store call got through (the store is back now):
\* the window is full, the tables are empty, the next frame is requested
BusyWindow ==
  [i \in 1..maxHistory |-> Tagged(IF i % 2 = 0 THEN PoseAwayReach ELSE PoseAway, i)]
InitBusy ==
  /\ InitStore
  /\ detector = [t \in Tabs |-> t = 1]
  /\ poseHistory = [t \in Tabs |-> IF t = 1 THEN Replay(<< >>, BusyWindow, 1) ELSE << >>]
  /\ histOwner = [t \in Tabs |->
                    IF t = 1 THEN [i \in 1..maxHistory |-> [session |-> 1, patient |-> "pA"]]
                    ELSE << >>]
  /\ mon = [s \in Sessions |->
              IF s = 1 THEN [MonInit EXCEPT !.life = "mounted", !.pc = "raf",
                                            !.stream = "live", !.rafRef = TRUE,
                                            !.init = "ok"]
              ELSE MonInit]
  /\ appended = << >>
  /\ risks = NoCall
  /\ nCalls = 0

NextBusy == CycleStep(1, {"ok"}, {PoseFallenAway, PoseDistressAway, PoseCalm}, RandomDraws)
SpecBusy == InitBusy /\ [][NextBusy]_vars

(***************************************************************************)
(* The rule detectors on chosen poses and windows: analyzeRisks called on  *)
(* page 1's window, which starts as one of RuleSeeds.                      *)
(***************************************************************************)
\* PoseCalm with the left wrist 125 and 126 px to the right
PoseWrist125 ==
  Body(<<400, 170, 90>>, <<380, 200, 90>>, <<420, 200, 90>>,
       <<495, 280, 90>>, <<430, 280, 90>>, <<385, 300, 90>>, <<415, 300, 90>>, 90)
PoseWrist126 ==
  Body(<<400, 170, 90>>, <<380, 200, 90>>, <<420, 200, 90>>,
       <<496, 280, 90>>, <<430, 280, 90>>, <<385, 300, 90>>, <<415, 300, 90>>, 90)
\* the hip midpoint on the left edge of the bed area (x = 200), and half a
\* pixel left of it
PoseOnEdge ==
  Body(<<400, 170, 90>>, <<380, 200, 90>>, <<420, 200, 90>>,
       <<370, 280, 90>>, <<430, 280, 90>>, <<185, 300, 90>>, <<215, 300, 90>>, 90)
PoseOffEdge ==
  Body(<<400, 170, 90>>, <<380, 200, 90>>, <<420, 200, 90>>,
       <<370, 280, 90>>, <<430, 280, 90>>, <<184, 300, 90>>, <<215, 300, 90>>, 90)
\* lying: shoulder midpoint (300, 310), hip midpoint 4, 3 and 16 px to its
\* right and 1, 1 and 9 px below: aspectRatio 2.0, 1.5 and 1.6
PoseRatio20 ==
  Body(<<260, 315, 90>>, <<300, 300, 90>>, <<300, 320, 90>>,
       <<370, 280, 90>>, <<430, 280, 90>>, <<304, 310, 90>>, <<304, 312, 90>>, 90)
PoseRatio15 ==
  Body(<<260, 315, 90>>, <<300, 300, 90>>, <<300, 320, 90>>,
       <<370, 280, 90>>, <<430, 280, 90>>, <<303, 310, 90>>, <<303, 312, 90>>, 90)
PoseRatio16 ==
  Body(<<260, 315, 90>>, <<300, 300, 90>>, <<300, 320, 90>>,
       <<370, 280, 90>>, <<430, 280, 90>>, <<316, 318, 90>>, <<316, 320, 90>>, 90)
\* PoseRatio20 with the nose on the shoulder line
PoseNoseLevel ==
  Body(<<260, 310, 90>>, <<300, 300, 90>>, <<300, 320, 90>>,
       <<370, 280, 90>>, <<430, 280, 90>>, <<304, 310, 90>>, <<304, 312, 90>>, 90)

RulePoses == {PoseCalm, PoseAway, PoseAwayPartial, PoseOnEdge, PoseOffEdge,
              PoseWrist125, PoseWrist126, PoseRatio20, PoseRatio15, PoseRatio16,
              PoseNoseLevel, PoseFallen, PoseFallenDimNose}

RuleSeeds ==
  { << >>,
    Repeat(PoseAway, 10),
    Repeat(PoseCalm, 4) \o Repeat(PoseAway, 6),
    Repeat(PoseAwayPartial, 3) \o Repeat(PoseAway, 6),
    <<PoseCalm, PoseWrist125, PoseCalm, PoseWrist125>>,
    <<PoseCalm, PoseAway, PoseCalm>> }

InitRules ==
  /\ InitStore
  /\ InitMonitors
  /\ \E stream \in RuleSeeds :
       /\ poseHistory = [t \in Tabs |-> IF t = 1 THEN Replay(<< >>, stream, 1) ELSE << >>]
       /\ appended = stream
  /\ risks = NoCall
  /\ nCalls = 0

NextRules == \E pose \in RulePoses : CallAnalyzeRisks(pose)
SpecRules == InitRules /\ [][NextRules]_vars

(***************************************************************************)
(* detectAggression on wrists that move diagonally, so that the distances  *)
(* are not whole numbers: analyzeRisks called on page 1's window, which    *)
(* starts as one of WristSeeds.                                            *)
(***************************************************************************)
\* PoseCalm with the wrists at lw and rw
Wrists(lw, rw) ==
  Body(<<400, 170, 90>>, <<380, 200, 90>>, <<420, 200, 90>>,
       <<lw[1], lw[2], 90>>, <<rw[1], rw[2], 90>>, <<385, 300, 90>>, <<415, 300, 90>>, 90)
\* both wrists 45 px to the right and 44 px down of PoseCalm's: each has
\* moved by Math.sqrt(3961) = 62.93647591023825
PoseWristDiag == Wrists(<<415, 324>>, <<475, 324>>)
\* the wrists moved from PoseCalm's by Math.sqrt(2410) and Math.sqrt(28530),
\* 218.0000099576453 together; then both 100 px to the right; then the left
\* one 82 px (PoseSwingC) or 83 px (PoseSwingD) further
PoseSwingA == Wrists(<<373, 329>>, <<487, 439>>)
PoseSwingB == Wrists(<<473, 329>>, <<587, 439>>)
PoseSwingC == Wrists(<<555, 329>>, <<587, 439>>)
PoseSwingD == Wrists(<<556, 329>>, <<587, 439>>)
\* the left wrist 218 px to the left of PoseCalm's; both wrists 100 px to
\* the right of PoseCalm's; the left one 82 px further, from where PoseSwingC
\* is Math.sqrt(2410) and Math.sqrt(28530) away
PoseReachA == Wrists(<<152, 280>>, <<430, 280>>)
PoseReachB == Wrists(<<470, 280>>, <<530, 280>>)
PoseReachC == Wrists(<<552, 280>>, <<530, 280>>)
\* the left wrist 1 px to the right and 1 px down of PoseCalm's: it has
\* moved by Math.sqrt(2) = 1.4142135623730951, a fifth of which is
\* 0.282842712474619
PoseWristNudge == Wrists(<<371, 281>>, <<430, 280>>)

WristPoses == {PoseCalm, PoseWristNudge, PoseReachC, PoseSwingC, PoseSwingD,
               PoseAwayPartial}

WristSeeds ==
  { << >>,
    <<PoseReachA, PoseCalm, PoseReachB, PoseReachC>>,
    <<PoseCalm, PoseWristDiag, PoseCalm, PoseWristDiag>>,
    <<PoseCalm, PoseSwingA, PoseSwingB, PoseSwingC>>,
    <<PoseCalm, PoseSwingA, PoseSwingB, PoseSwingD>>,
    <<PoseCalm, PoseAway, PoseCalm, PoseAway>>,
    <<PoseCalm, PoseCalm, PoseCalm, PoseCalm>> }

InitWrist ==
  /\ InitStore
  /\ InitMonitors
  /\ \E stream \in WristSeeds :
       /\ poseHistory = [t \in Tabs |-> IF t = 1 THEN Replay(<< >>, stream, 1) ELSE << >>]
       /\ appended = stream
  /\ risks = NoCall
  /\ nCalls = 0

NextWrist == \E pose \in WristPoses : CallAnalyzeRisks(pose)
SpecWrist == InitWrist /\ [][NextWrist]_vars

\* two alerts that a dedup query for the later one would match the earlier by
SameKey(a, b) == a.patient_id = b.patient_id /\ a.alert_type = b.alert_type

\* C2: a single monitor never leaves two active alerts of one patient and type
\* whose created_at are 5000 ms or less apart: the later one is created only
\* when the dedup query finds no such alert.
C2_OneAlertPerCooldown ==
  \A i, j \in DOMAIN alerts :
    (i < j /\ SameKey(alerts[i], alerts[j])
           /\ alerts[i].status = "active" /\ alerts[j].status = "active")
      => alerts[j].created_at - alerts[i].created_at > 5000

\* C3: no alert is inserted while the table holds an active or acknowledged
\* alert of the same patient and type created within the last 5000 ms.
C3_NoInsertWhileUnresolved ==
  [][\A s \in Sessions :
       (mon[s].pc = "insert" /\ Len(alerts') = Len(alerts) + 1
                            /\ alerts'[Len(alerts')].by = s)
         => ~\E i \in DOMAIN alerts :
               /\ alerts[i].patient_id = mon[s].patient0
               /\ alerts[i].alert_type = mon[s].allRisks[mon[s].idx].type
               /\ alerts[i].status \in {"active", "acknowledged"}
               /\ alerts[i].created_at >= now - 5000]_vars

\* C4: with two monitors, two active alerts of one patient and type can lie
\* less than 5000 ms apart (C4_Witness); and whenever two lie 5000 ms or less
\* apart, the dedup query of the later one was answered before the earlier
\* one was in the table.
C4_DuplicatesOnlyByRace ==
  \A i, j \in DOMAIN alerts :
    (i < j /\ SameKey(alerts[i], alerts[j])
           /\ alerts[i].status = "active" /\ alerts[j].status = "active"
           /\ alerts[j].created_at - alerts[i].created_at <= 5000)
      => alerts[j].seen < i

\* two active alerts of one patient and type, inserted by the two monitors,
\* with created_at less than 5000 ms apart
C4_Witness ==
  \E i, j \in DOMAIN alerts :
    /\ i < j
    /\ SameKey(alerts[i], alerts[j])
    /\ alerts[i].status = "active" /\ alerts[j].status = "active"
    /\ alerts[i].by # alerts[j].by
    /\ alerts[j].created_at - alerts[i].created_at < 5000

\* C5: every entry of a page's window was appended by the session that is
\* mounted on the page now, so nothing of a stopped session is in the window
\* after its cleanup, whatever the stopped session was awaiting; and a
\* stopped session starts no further detection cycle.
C5_StopClearsAndHalts ==
  /\ [](\A t \in Tabs : \A i \in DOMAIN histOwner[t] :
          mon[histOwner[t][i].session].life = "mounted")
  /\ [][\A s \in Sessions :
          mon[s].life = "unmounted" => mon'[s].cycles = mon[s].cycles]_vars

\* session 1 completed a cycle (its pose was appended and its monitoring row
\* saved), was stopped while awaiting detectPose in the next one, and session
\* 2 is in its first cycle, past the append: the window holds that one pose
C5_Witness ==
  /\ mon[1].life = "unmounted"
  /\ mon[1].pc = "pose"
  /\ msessions.n > 0
  /\ mon[2].life = "mounted"
  /\ mon[2].cycles = 1
  /\ mon[2].pc = "query"
  /\ Len(histOwner[1]) = 1
  /\ histOwner[1][1].session = 2

\* C6: no detection cycle reads a window entry that was appended while
\* another patient was the patient prop.
C6_NoEntryOfAnotherPatient == \A s \in Sessions : ~mon[s].stale

\* C9: a saveAlert call whose dedup query or insert failed has logged the
\* failure and has neither issued an insert after a failed query nor created a row.
SaveDropped(d) ==
  /\ d.q \in {"error", "throw"} => (d.logged /\ d.ins = "none" /\ ~d.inserted)
  /\ d.ins \in {"error", "throw"} => (d.logged /\ ~d.inserted)
C9_FailedSaveIsDropped ==
  \A s \in Sessions :
    /\ SaveDropped(mon[s].save)
    /\ SaveDropped(mon[s].done)
    /\ mon[s].pc = "insert" => mon[s].save.q = "ok"

\* C10: every detection cycle is followed by the request of the next frame.
C10_CycleReschedules ==
  (mon[1].pc \in {"pose", "query", "insert", "session"}) ~> (mon[1].pc = "raf")

\* a cycle in which detectPose, the dedup query or a write failed has ended
\* and the next frame is requested
C10_Witness ==
  /\ mon[1].pc = "raf"
  /\ mon[1].cycles > 0
  /\ mon[1].life = "mounted"
  /\ errlog # ""

\* C11: a cycle that obtained a pose issues exactly one monitoring_sessions
\* insert before it ends: none while its alerts are being saved, one once
\* they are done, whatever their outcome and also with an empty risk list;
\* the row carries the cycle's pose and the vitals synthesized from it.
C11_OneSessionInsertPerCycle ==
  /\ [](\A s \in Sessions :
          /\ mon[s].pc \in {"query", "insert"} => mon[s].issued = 0
          /\ mon[s].pc = "session" => (mon[s].issued = 1 /\ mon[s].pose # Null)
          /\ mon[s].issued <= 1)
  /\ [](msessions.last # Null =>
          /\ msessions.last.pose_data \in {PoseCalm, PoseFallen}
          /\ msessions.last.is_in_bed = patientInBed(msessions.last.pose_data, bedArea)
          /\ msessions.last.heart_rate =
               generateSmartBedData(msessions.last.is_in_bed, FALSE, FALSE,
                                    <<0, 0, 0>>).heartRate)
  /\ [][\A s \in Sessions :
          (mon[s].pc \in {"pose", "query", "insert", "session"}
             /\ mon'[s].pc \in {"raf", "ended"}
             /\ (mon[s].pose # Null \/ poseHistory'[TabOf(s)] # poseHistory[TabOf(s)]))
            => (mon[s].pc = "session" /\ mon[s].issued = 1)]_vars

\* the session insert is in flight in a cycle whose alert failed to persist,
\* after a cycle with an empty risk list has saved its row
C11_Witness ==
  /\ mon[1].pc = "session"
  /\ mon[1].issued = 1
  /\ mon[1].done.q = "throw"
  /\ msessions.n = 1
  /\ msessions.last.pose_data = PoseCalm

\* C12: in every step of a monitor's cycle the window is either left as it
\* was or is the old window with the cycle's pose appended and, beyond 30
\* entries, the oldest dropped.  The frame callback, a detectPose that failed
\* or returned no pose, and every answer to the dedup query, the alert insert
\* and the session insert (success, returned error, rejection) leave it as it
\* was; a detectPose that returned a pose appends exactly that pose.
C12_AppendAllOrNothing ==
  [][/\ mon[1].pc \in {"raf", "query", "insert", "session"}
          => poseHistory' = poseHistory
     /\ (mon[1].pc = "pose" /\ mon'[1].pose = Null) => poseHistory' = poseHistory
     /\ (mon[1].pc = "pose" /\ mon'[1].pose # Null)
          => /\ poseHistory'[1] = SliceLast(Append(poseHistory[1], mon'[1].pose), 30)
             /\ poseHistory'[2] = poseHistory[2]]_vars

\* on a full window, a pose was appended over the oldest entry in a cycle
\* whose dedup query failed, and the window is what it was after the append
C12_Witness ==
  /\ mon[1].pc = "session"
  /\ mon[1].done.q \in {"error", "throw"}
  /\ mon[1].cycles = 1
  /\ poseHistory[1] = Append(Tail(WarmWindow), PoseFallen)

\* C13: an alert's status only moves active -> acknowledged -> resolved, and
\* an alert that is resolved stays resolved.
StatusRank(status) ==
  CASE status = "active" -> 0
    [] status = "acknowledged" -> 1
    [] status = "resolved" -> 2
C13_StatusOnlyAdvances ==
  [][\A i \in DOMAIN alerts :
       StatusRank(alerts'[i].status) >= StatusRank(alerts[i].status)]_vars

\* C14: the risk list of a cycle is in the order fall, wandering, aggression,
\* emotion, vitals, holds each type at most once and at most five entries.
TypeRank(type) ==
  CASE type = "fall" -> 1
    [] type = "wandering" -> 2
    [] type = "aggression" -> 3
    [] type = "emotion" -> 4
    [] type = "vitals" -> 5
    [] OTHER -> 0
C14_RiskListOrdered ==
  \A s \in Sessions :
    /\ Len(mon[s].allRisks) <= 5
    /\ \A i \in DOMAIN mon[s].allRisks : TypeRank(mon[s].allRisks[i].type) > 0
    /\ \A i, j \in DOMAIN mon[s].allRisks :
         i < j => TypeRank(mon[s].allRisks[i].type) < TypeRank(mon[s].allRisks[j].type)

\* a cycle whose list holds four types, the vitals entry last; and the list
\* of the cycle before it was wandering, aggression, emotion, vitals
C14_Witness ==
  /\ [i \in DOMAIN mon[1].allRisks |-> mon[1].allRisks[i].type]
       = <<"fall", "wandering", "aggression", "vitals">>
  /\ mon[1].cycles = 2
  /\ Len(alerts) > 0
  /\ alerts[1].alert_type = "wandering"
  /\ \E i \in DOMAIN alerts : alerts[i].alert_type = "emotion"

\* the usable keypoint of a name (score above 0.3), where there is one
UsableKeypoint(pose, name) ==
  pose.keypoints[CHOOSE i \in DOMAIN pose.keypoints :
                   pose.keypoints[i].name = name /\ pose.keypoints[i].score > 30]
\* both hips are usable and their midpoint is outside the bed area
\* x in [200, 600], y in [150, 450], on doubled coordinates
HipsOutOfBed(pose) ==
  /\ AllUsable(pose, {"left_hip", "right_hip"})
  /\ LET x2 == UsableKeypoint(pose, "left_hip").x + UsableKeypoint(pose, "right_hip").x
         y2 == UsableKeypoint(pose, "left_hip").y + UsableKeypoint(pose, "right_hip").y
     IN  ~(400 <= x2 /\ x2 <= 1200 /\ 300 <= y2 /\ y2 <= 900)
OutOfBedCount(window) ==
  Cardinality({i \in DOMAIN window : HipsOutOfBed(window[i])})
RiskOfType(list, type) == list[CHOOSE i \in DOMAIN list : list[i].type = type]
SameFraction(a, b) == a[1] * b[2] = b[1] * a[2]

\* C15: analyzeRisks returns a wandering detection exactly when the current
\* hips are usable with their midpoint outside the bed area, the window (the
\* current pose appended) holds more than 10 entries and more than 7 of its
\* last 10 entries have usable hips with an out-of-bed midpoint; the
\* detection is wandering/high with confidence count/10.
C15_WanderingIff ==
  risks.op = "analyze" =>
    LET count == OutOfBedCount(SliceLast(poseHistory[1], 10))
        fires == /\ HipsOutOfBed(risks.pose)
                 /\ Len(poseHistory[1]) > 10
                 /\ count > 7
    IN  /\ ("wandering" \in Types(risks.list)) <=> fires
        /\ fires => /\ RiskOfType(risks.list, "wandering").severity = "high"
                    /\ SameFraction(RiskOfType(risks.list, "wandering").confidence,
                                    <<count, 10>>)

\* wandering fires with confidence 8/10 on a 12-entry window, one call after
\* a call on an out-of-bed pose whose last 10 entries held exactly 7
\* out-of-bed ones and which did not fire
C15_Witness ==
  /\ risks.op = "analyze"
  /\ Len(poseHistory[1]) = 12
  /\ "wandering" \in Types(risks.list)
  /\ RiskOfType(risks.list, "wandering").confidence = <<8, 10>>
  /\ HipsOutOfBed(poseHistory[1][11])
  /\ OutOfBedCount(SubSeq(poseHistory[1], 2, 11)) = 7
  /\ detectWandering(poseHistory[1][11], bedArea, SubSeq(poseHistory[1], 1, 11)) = Null

\* the distance between two keypoints as a double: the move itself along an
\* axis, Math.sqrt of dx^2 + dy^2 otherwise
KeypointDistance(p1, p2) ==
  IF p1.y = p2.y THEN DoubleOfInt(Abs(p2.x - p1.x))
  ELSE IF p1.x = p2.x THEN DoubleOfInt(Abs(p2.y - p1.y))
  ELSE MathSqrt((p2.x - p1.x) * (p2.x - p1.x) + (p2.y - p1.y) * (p2.y - p1.y))
\* total plus the displacement of one wrist between two entries, when the
\* wrist is usable in both
WristTravel(total, prev, curr, name) ==
  IF Usable(prev, name) /\ Usable(curr, name)
  THEN DoubleAdd(total, KeypointDistance(UsableKeypoint(prev, name),
                                         UsableKeypoint(curr, name)))
  ELSE total
\* the displacements added in the order of the entries, left wrist first
RECURSIVE WristTravelSum(_, _, _)
WristTravelSum(window, i, total) ==
  IF i > Len(window) THEN total
  ELSE WristTravelSum(window, i + 1,
                      WristTravel(WristTravel(total, window[i - 1], window[i], "left_wrist"),
                                  window[i - 1], window[i], "right_wrist"))

\* C16: analyzeRisks returns an aggression detection exactly when the window
\* (the current pose appended) holds at least 5 entries, both current wrists
\* are usable and the wrist displacement summed over the last 5 entries,
\* divided by 5, is strictly above 100 (the sum strictly above 500); the
\* detection is aggression/high with confidence min(average / 200, 1).
C16_AggressionIff ==
  risks.op = "analyze" =>
    LET total == WristTravelSum(SliceLast(poseHistory[1], 5), 2, DoubleZero)
        fires == /\ Len(poseHistory[1]) >= 5
                 /\ AllUsable(risks.pose, {"left_wrist", "right_wrist"})
                 /\ BigGt(total, DoubleOfInt(500))
    IN  /\ ("aggression" \in Types(risks.list)) <=> fires
        /\ fires =>
             /\ RiskOfType(risks.list, "aggression").severity = "high"
             /\ RiskOfType(risks.list, "aggression").confidence =
                  IF BigGt(total, DoubleOfInt(1000)) THEN DoubleOne
                  ELSE DoubleDiv(DoubleDiv(total, 5), 200)

\* aggression fires on a sum of 500.00000995764526, an average a
\* hundred-millionth above 100, with confidence 0.5000000099576453 (the
\* double <<131072, 10948, 2293248>>), one call after a call whose last 5 entries
\* summed to exactly 500 and did not fire
C16_Witness ==
  /\ risks.op = "analyze"
  /\ Len(poseHistory[1]) = 6
  /\ "aggression" \in Types(risks.list)
  /\ RiskOfType(risks.list, "aggression").confidence = <<131072, 10948, 2293248>>
  /\ WristTravelSum(SubSeq(poseHistory[1], 1, 5), 2, DoubleZero) = DoubleOfInt(500)
  /\ AllUsable(poseHistory[1][5], {"left_wrist", "right_wrist"})
  /\ detectAggression(poseHistory[1][5], SubSeq(poseHistory[1], 1, 5)) = Null

FallKeypoints == {"nose", "left_hip", "right_hip", "left_shoulder", "right_shoulder"}
\* twice the distance between the hip midpoint and the shoulder midpoint
\* along x, and along y
BodyWidth2(pose) ==
  Abs((UsableKeypoint(pose, "left_hip").x + UsableKeypoint(pose, "right_hip").x)
      - (UsableKeypoint(pose, "left_shoulder").x + UsableKeypoint(pose, "right_shoulder").x))
BodyHeight2(pose) ==
  Abs((UsableKeypoint(pose, "left_hip").y + UsableKeypoint(pose, "right_hip").y)
      - (UsableKeypoint(pose, "left_shoulder").y + UsableKeypoint(pose, "right_shoulder").y))
\* aspectRatio = |hipMidX - shoulderMidX| / (|hipMidY - shoulderMidY| + 1)
AspectRatio(pose) == <<BodyWidth2(pose), BodyHeight2(pose) + 2>>
NoseBelowShoulders(pose) ==
  2 * UsableKeypoint(pose, "nose").y
    > UsableKeypoint(pose, "left_shoulder").y + UsableKeypoint(pose, "right_shoulder").y

\* C17: analyzeRisks returns a fall detection exactly when nose, both hips and
\* both shoulders are usable, aspectRatio is strictly above 1.5 and the nose
\* is strictly below the shoulder midpoint; the detection is fall/critical
\* with confidence min(aspectRatio / 2, 1).
C17_FallIff ==
  risks.op = "analyze" =>
    LET fires == /\ AllUsable(risks.pose, FallKeypoints)
                 /\ 2 * AspectRatio(risks.pose)[1] > 3 * AspectRatio(risks.pose)[2]
                 /\ NoseBelowShoulders(risks.pose)
    IN  /\ ~risks.threw
        /\ ("fall" \in Types(risks.list)) <=> fires
        /\ fires =>
             /\ RiskOfType(risks.list, "fall").severity = "critical"
             /\ SameFraction(RiskOfType(risks.list, "fall").confidence,
                             IF AspectRatio(risks.pose)[1] > 2 * AspectRatio(risks.pose)[2]
                             THEN <<1, 1>>
                             ELSE <<AspectRatio(risks.pose)[1],
                                    2 * AspectRatio(risks.pose)[2]>>)

\* a pose of aspectRatio exactly 2.0 fires with confidence 1, right after a
\* pose of aspectRatio exactly 1.5, nose below the shoulders, that did not
C17_Witness ==
  /\ risks.op = "analyze"
  /\ ~risks.threw
  /\ risks.pose = PoseRatio20
  /\ SameFraction(AspectRatio(risks.pose), <<2, 1>>)
  /\ "fall" \in Types(risks.list)
  /\ SameFraction(RiskOfType(risks.list, "fall").confidence, <<1, 1>>)
  /\ Len(poseHistory[1]) >= 2
  /\ poseHistory[1][Len(poseHistory[1]) - 1] = PoseRatio15
  /\ SameFraction(AspectRatio(PoseRatio15), <<3, 2>>)
  /\ NoseBelowShoulders(PoseRatio15)
  /\ detectFall(PoseRatio15) = Null

(***************************************************************************)
(* The smart-bed functions alone: generateSmartBedData called on every     *)
(* flag combination with low, middle and high Math.random() draws and the  *)
(* draw 0.125, on which the temperature falls halfway between two tenths,  *)
(* and checkVitalsRisk called on its results and on bed readings around    *)
(* every threshold (a SmartBedData value holds temperature in tenths).     *)
(***************************************************************************)
JitterDraws == {0, 125, 500, 999}
HeartRates == {44, 45, 49, 50, 120, 121, 140, 141, 145}
Temperatures == {354, 355, 359, 360, 385, 386, 390, 391, 400}
RespiratoryRates == {9, 10, 11, 12, 24, 25, 28, 29}

BedArguments ==
  [op : {"arguments"}, isInBed : BOOLEAN, hasAggression : BOOLEAN,
   hasDistress : BOOLEAN, rnd : JitterDraws \X JitterDraws \X JitterDraws]
BedReadings ==
  [op : {"reading"},
   bedData : [heartRate : HeartRates, isInBed : {TRUE}, temperature : Temperatures,
              respiratoryRate : RespiratoryRates]]

InitVitals ==
  /\ InitStore
  /\ InitMonitors
  /\ poseHistory = [t \in Tabs |-> << >>]
  /\ appended = << >>
  /\ nCalls = 0
  /\ risks \in BedArguments \cup BedReadings

CallGenerateSmartBedData ==
  /\ risks.op = "arguments"
  /\ risks' = [op |-> "generated", arguments |-> risks,
               bedData |-> generateSmartBedData(risks.isInBed, risks.hasAggression,
                                                risks.hasDistress, risks.rnd)]
  /\ UNCHANGED <<poseHistory, appended, nCalls>>
  /\ UNCHANGED DetectFrame

CallCheckVitalsRisk ==
  /\ risks.op \in {"generated", "reading"}
  /\ risks' = [op |-> "checked", bedData |-> risks.bedData,
               risk |-> checkVitalsRisk(risks.bedData)]
  /\ UNCHANGED <<poseHistory, appended, nCalls>>
  /\ UNCHANGED DetectFrame

NextVitals ==
  \/ CallGenerateSmartBedData
  \/ CallCheckVitalsRisk

SpecVitals == InitVitals /\ [][NextVitals]_vars

\* C18: for every flag combination and every jitter, generateSmartBedData
\* returns an integer heartRate in [50, 150], a temperature in [36.0, 39.0],
\* an integer respiratoryRate in [10, 30] and isInBed equal to its input.
C18_BedDataInRange ==
  risks.op = "generated" =>
    /\ risks.bedData.heartRate \in 50..150
    /\ risks.bedData.temperature \in 360..390
    /\ risks.bedData.respiratoryRate \in 10..30
    /\ risks.bedData.isInBed = risks.arguments.isInBed

\* aggression, distress and out of bed with the highest draws: the
\* respiratory rate 16 + 1.996 + 16 is cut to 30, the heart rate is 135
C18_Witness ==
  /\ risks.op = "generated"
  /\ risks.arguments.hasAggression
  /\ risks.arguments.hasDistress
  /\ ~risks.arguments.isInBed
  /\ risks.arguments.rnd = <<999, 999, 999>>
  /\ risks.bedData.respiratoryRate = 30
  /\ risks.bedData.heartRate = 135
  /\ ~risks.bedData.isInBed

HeartRateAbnormal(bedData) == bedData.heartRate > 120 \/ bedData.heartRate < 50
TemperatureAbnormal(bedData) == bedData.temperature > 385 \/ bedData.temperature < 360
RespiratoryAbnormal(bedData) ==
  bedData.respiratoryRate > 24 \/ bedData.respiratoryRate < 12
\* the reading a vitals risk reports: the head of its description
ReportedVital(risk) ==
  IF risk = Null THEN "none" ELSE risk.description[1]

\* C19: checkVitalsRisk returns at most one risk, for the first abnormal
\* reading in the order heart rate (> 120 or < 50), temperature (> 38.5 or
\* < 36.0), respiratory rate (> 24 or < 12), and none when all are normal.
C19_VitalsPriority ==
  risks.op = "checked" =>
    /\ ReportedVital(risks.risk) =
         IF HeartRateAbnormal(risks.bedData) THEN "Abnormal heart rate"
         ELSE IF TemperatureAbnormal(risks.bedData) THEN "Abnormal temperature"
         ELSE IF RespiratoryAbnormal(risks.bedData) THEN "Abnormal respiratory rate"
         ELSE "none"
    /\ risks.risk # Null =>
         /\ risks.risk.type = "vitals"
         /\ risks.risk.description[2] =
              IF HeartRateAbnormal(risks.bedData) THEN risks.bedData.heartRate
              ELSE IF TemperatureAbnormal(risks.bedData) THEN risks.bedData.temperature
              ELSE risks.bedData.respiratoryRate

\* heart rate 145 with temperature 40.0 and respiratory rate 29: the one
\* risk returned is the heart-rate one, critical
C19_Witness ==
  /\ risks.op = "checked"
  /\ risks.bedData.heartRate = 145
  /\ risks.bedData.temperature = 400
  /\ risks.bedData.respiratoryRate = 29
  /\ risks.risk # Null
  /\ risks.risk.description = <<"Abnormal heart rate", 145>>
  /\ risks.risk.severity = "critical"

\* the CHECK constraints of the alerts table on alert_type, severity and
\* confidence (a fraction <<numerator, denominator>>, or the three limbs of
\* a double)
AlertTypes == {"fall", "wandering", "aggression", "emotion", "vitals"}
Severities == {"low", "medium", "high", "critical"}
ConfidenceInUnitRange(confidence) ==
  IF Len(confidence) = 3
  THEN /\ \A i \in 1..3 : confidence[i] >= 0
       /\ ~BigGt(confidence, DoubleOne)
  ELSE /\ confidence[2] > 0
       /\ 0 <= confidence[1]
       /\ confidence[1] <= confidence[2]

\* C20: every RiskDetection on a cycle's risk list has a confidence in
\* [0, 1], a type among the five alert types and a severity among low,
\* medium, high, critical, and every row saveAlert inserted satisfies the
\* CHECK constraints of the alerts table.
C20_RisksSatisfyChecks ==
  /\ \A s \in Sessions : \A i \in DOMAIN mon[s].allRisks :
       /\ mon[s].allRisks[i].type \in AlertTypes
       /\ mon[s].allRisks[i].severity \in Severities
       /\ ConfidenceInUnitRange(mon[s].allRisks[i].confidence)
  /\ \A i \in DOMAIN alerts :
       /\ alerts[i].alert_type \in AlertTypes
       /\ alerts[i].severity \in Severities
       /\ alerts[i].status \in {"active", "acknowledged", "resolved"}
       /\ ConfidenceInUnitRange(alerts[i].confidence)

\* alerts of all five types were inserted, the fall one with its confidence
\* cut to 1 and the emotion one with a confidence below 1
C20_Witness ==
  /\ {alerts[i].alert_type : i \in DOMAIN alerts} = AlertTypes
  /\ \E i \in DOMAIN alerts :
       /\ alerts[i].alert_type = "fall"
       /\ alerts[i].confidence = <<1, 1>>
  /\ \E i \in DOMAIN alerts :
       /\ alerts[i].alert_type = "emotion"
       /\ alerts[i].confidence[1] < alerts[i].confidence[2]

\* the row a step of session s added to the alerts table carries the
\* detection the session's saveAlert call was made for, for patient
\* `patientId`, with status active
InsertedFor(s, patientId) ==
  /\ mon[s].pc = "insert"
  /\ Len(alerts') = Len(alerts) + 1
  /\ SubSeq(alerts', 1, Len(alerts)) = alerts
  /\ \E row \in {alerts'[Len(alerts')]}, risk \in {mon[s].allRisks[mon[s].idx]} :
       /\ row.status = "active"
       /\ row.patient_id = patientId
       /\ row.alert_type = risk.type
       /\ row.severity = risk.severity
       /\ row.confidence = risk.confidence
       /\ row.description = risk.description

\* C21: a step of a detection cycle (any step that is not a step of a
\* Dashboard page) either leaves the alerts table as it is or appends one row
\* with status active, the id of the monitored patient, and the type,
\* severity, confidence and description of the detection; it changes no
\* existing row, whatever status an operator has given it.
C21_CycleOnlyInserts ==
  [][dash' = dash /\ alerts' # alerts
       => \E s \in Sessions : InsertedFor(s, mon[s].patient)]_vars

\* a cycle has appended an active fall alert for the monitored patient
\* behind a fall alert of that patient an operator had acknowledged or
\* resolved before the cycle's dedup query was answered
C21_Witness ==
  /\ Len(alerts) = 2
  /\ alerts[1].status \in {"acknowledged", "resolved"}
  /\ alerts[2].status = "active"
  /\ alerts[2].alert_type = alerts[1].alert_type
  /\ alerts[2].patient_id = mon[1].patient
  /\ alerts[2].seen = 1
  /\ mon[1].done.inserted

\* setupCamera of session s ended in its catch block: no stream was kept and
\* nothing is pending
SetupFailed(s) == mon[s].error \/ (mon[s].pc = "ended" /\ mon[s].stream = "none")

\* C22: a session's cycle awaits detectPose only once its own
\* initializePoseDetector call has completed and the page's detector is
\* set, and a session whose setupCamera failed (camera refused or detector
\* initialization failed) never runs a cycle: it has appended no pose and
\* written no alert and no session row, and while it is shown it shows the
\* error.
C22_NoCycleWithoutSetup ==
  \A s \in Sessions :
    /\ (mon[s].pc = "pose" \/ mon[s].cycles > 0) =>
         (mon[s].init = "ok" /\ detector[TabOf(s)])
    /\ SetupFailed(s) =>
         /\ mon[s].cycles = 0
         /\ mon[s].pc = "ended"
         /\ \A i \in DOMAIN histOwner[TabOf(s)] : histOwner[TabOf(s)][i].session # s
         /\ \A i \in DOMAIN alerts : alerts[i].by # s
         /\ msessions.last # Null => msessions.last.by # s
         /\ mon[s].life = "mounted" => mon[s].error

\* session 1's camera was refused while its initializePoseDetector call
\* completed: it showed the error and ran nothing; session 2, mounted after
\* it on the same page, ran cycles and wrote rows
C22_Witness ==
  /\ SetupFailed(1)
  /\ mon[1].error
  /\ mon[1].cycles = 0
  /\ mon[1].init = "ok"
  /\ detector[TabOf(1)]
  /\ mon[2].cycles > 0
  /\ Len(alerts) > 0
  /\ msessions.n > 0

(***************************************************************************)
(* The posture detectors on a family of poses: analyzeRisks called once on *)
(* an empty window, on a pose whose nose height and score, shoulder score, *)
(* shoulder tilt and hip position vary around the thresholds of detectFall *)
(* and detectEmotionalDistress.                                            *)
(***************************************************************************)
\* left shoulder at (380, 300), right shoulder at x = 420, wrists at rest
Posture(noseY, noseScore, shoulderScore, rightShoulderY, hipX, hipY) ==
  Body(<<400, noseY, noseScore>>, <<380, 300, shoulderScore>>,
       <<420, rightShoulderY, 90>>, <<370, 380, 90>>, <<430, 380, 90>>,
       <<hipX - 15, hipY, 90>>, <<hipX + 15, hipY, 90>>, 90)
PosturePoses ==
  { Posture(noseY, noseScore, shoulderScore, rightShoulderY, hipX, hipY) :
      noseY \in {280, 315, 316, 340}, noseScore \in {30, 31, 90},
      shoulderScore \in {30, 90}, rightShoulderY \in {300, 329, 330, 331, 360},
      hipX \in {400, 700}, hipY \in {320, 415} }

InitPosture ==
  /\ InitStore
  /\ InitMonitors
  /\ poseHistory = [t \in Tabs |-> << >>]
  /\ appended = << >>
  /\ nCalls = 0
  /\ risks \in {[NoCall EXCEPT !.op = "frame", !.pose = pose] : pose \in PosturePoses}

NextPosture ==
  /\ risks.op = "frame"
  /\ CallAnalyzeRisks(risks.pose)

SpecPosture == InitPosture /\ [][NextPosture]_vars

PostureKeypoints ==
  {"left_shoulder", "right_shoulder", "left_hip", "right_hip", "nose"}
\* |leftShoulderY - rightShoulderY|
ShoulderSlope(pose) ==
  Abs(UsableKeypoint(pose, "left_shoulder").y - UsableKeypoint(pose, "right_shoulder").y)
NoseAboveShoulders(pose) ==
  2 * UsableKeypoint(pose, "nose").y
    < UsableKeypoint(pose, "left_shoulder").y + UsableKeypoint(pose, "right_shoulder").y

\* C23: analyzeRisks returns an emotion detection exactly when both
\* shoulders, both hips and the nose are usable, the shoulder tilt is
\* strictly above 0.3 times the distance along y between the hip midpoint
\* and the shoulder midpoint, and the nose is strictly above the shoulder
\* midpoint; the detection is emotion/medium with confidence 0.6.
C23_EmotionIff ==
  risks.op = "analyze" =>
    LET fires == /\ AllUsable(risks.pose, PostureKeypoints)
                 /\ 20 * ShoulderSlope(risks.pose) > 3 * BodyHeight2(risks.pose)
                 /\ NoseAboveShoulders(risks.pose)
    IN  /\ ~risks.threw
        /\ ("emotion" \in Types(risks.list)) <=> fires
        /\ fires => /\ RiskOfType(risks.list, "emotion").severity = "medium"
                    /\ RiskOfType(risks.list, "emotion").confidence = <<6, 10>>

\* emotion fires on a tilt of 31 against 0.3 x 99.5 = 29.85, with a nose of
\* score 0.31; the pose one pixel less tilted (30 against 0.3 x 100) does not
C23_Witness ==
  /\ risks.op = "analyze"
  /\ risks.pose = Posture(280, 31, 90, 331, 400, 415)
  /\ ShoulderSlope(risks.pose) = 31
  /\ BodyHeight2(risks.pose) = 199
  /\ Types(risks.list) = {"emotion"}
  /\ RiskOfType(risks.list, "emotion").confidence = <<6, 10>>
  /\ Posture(280, 31, 90, 330, 400, 415) \in PosturePoses
  /\ detectEmotionalDistress(Posture(280, 31, 90, 330, 400, 415)) = Null

\* the await points of a cycle
CyclePcs == {"pose", "query", "insert", "session"}

\* C24: within one monitor a cycle starts only when none is in flight; the
\* next frame is requested only when the cycle's session insert was answered
\* after every saveAlert call of the cycle returned, or when the cycle got no
\* pose; and the window changes only in the step that resumes the cycle after
\* detectPose, which appends the pose and runs the detectors on that window
\* before the cycle suspends again.
C24_CyclesDoNotOverlap ==
  [][ /\ mon'[1].cycles # mon[1].cycles =>
           /\ mon[1].pc \notin CyclePcs
           /\ mon'[1].cycles = mon[1].cycles + 1
      /\ (mon[1].pc \in CyclePcs /\ mon'[1].pc = "raf") =>
           \/ /\ mon[1].pc = "session"
              /\ mon[1].issued = 1
              /\ mon[1].idx = Len(mon[1].allRisks)
           \/ /\ mon[1].pc = "pose"
              /\ poseHistory' = poseHistory
      /\ poseHistory' # poseHistory =>
           /\ mon[1].pc = "pose"
           /\ mon'[1].pc \in {"query", "session"}
           /\ poseHistory'[1] = addPoseToHistory(poseHistory[1], mon'[1].pose)
           /\ \E rules \in {analyzeRisksOn(poseHistory'[1], mon'[1].pose, bedArea)} :
                /\ Len(mon'[1].allRisks) >= Len(rules.risks)
                /\ SubSeq(mon'[1].allRisks, 1, Len(rules.risks)) = rules.risks
    ]_vars

\* the second cycle has ended and requested the next frame: both cycles'
\* session rows and an alert are in the store
C24_Witness ==
  /\ mon[1].pc = "raf"
  /\ mon[1].cycles = 2
  /\ msessions.n = 2
  /\ Len(alerts) > 0
  /\ Len(poseHistory[1]) = 2

(***************************************************************************)
(* One monitor on poses whose hips are inside, on the edge of and outside  *)
(* the bed area, dim, or reported twice, and on a fallen patient.           *)
(***************************************************************************)
\* PoseCalm (hips in bed) with a dim left_hip keypoint ahead of the others,
\* and with a dim left_hip keypoint after them
PoseHipDimFirst ==
  PoseData(<<Keypoint("left_hip", 385, 300, 20)>> \o PoseCalm.keypoints, 90)
PoseHipDimLast ==
  PoseData(PoseCalm.keypoints \o <<Keypoint("left_hip", 385, 300, 20)>>, 90)
\* PoseCalm with the right hip at score exactly 0.3
PoseHipDim ==
  Body(<<400, 170, 90>>, <<380, 200, 90>>, <<420, 200, 90>>,
       <<370, 280, 90>>, <<430, 280, 90>>, <<385, 300, 90>>, <<415, 300, 30>>, 90)
BedPoses == {PoseCalm, PoseAway, PoseFallen, PoseOnEdge, PoseOffEdge, PoseHipDim,
             PoseHipDimFirst, PoseHipDimLast}

NextBed == MonitorStep(1, {"ok"}, BedPoses, {<<0, 0, 0>>}, {"pA"})
SpecBed == InitSys /\ [][NextBed]_vars

\* getKeypoint's choice: the first keypoint of the name with score above 0.3
FirstUsable(pose, name) ==
  pose.keypoints[Min({i \in DOMAIN pose.keypoints :
                        /\ pose.keypoints[i].name = name
                        /\ pose.keypoints[i].score > 30})]
\* both hips are usable and their midpoint is within the bed area, bounds
\* inclusive (x in [200, 600], y in [150, 450], on doubled coordinates)
HipsInBed(pose) ==
  /\ AllUsable(pose, {"left_hip", "right_hip"})
  /\ LET x2 == FirstUsable(pose, "left_hip").x + FirstUsable(pose, "right_hip").x
         y2 == FirstUsable(pose, "left_hip").y + FirstUsable(pose, "right_hip").y
     IN  400 <= x2 /\ x2 <= 1200 /\ 300 <= y2 /\ y2 <= 900

\* C25: the bed-occupancy flag a cycle passes to generateSmartBedData is true
\* exactly when both hips of the cycle's pose are usable in the sense of
\* getKeypoint and their midpoint lies within the bed area, bounds inclusive,
\* also for a pose that carries a keypoint name more than once.
C25_FlagAgreesWithWandering ==
  (mon[1].pc \in {"query", "insert", "session"}) =>
    (mon[1].bedData.isInBed <=> HipsInBed(mon[1].pose))

\* C26: the list analyzeRisks returns never holds both a fall and an emotion
\* detection: a fall is returned only with the nose strictly below the
\* shoulder midpoint, an emotion detection only with the nose strictly above.
C26_FallExcludesEmotion ==
  risks.op = "analyze" =>
    /\ ~({"fall", "emotion"} \subseteq Types(risks.list))
    /\ "fall" \in Types(risks.list) => NoseBelowShoulders(risks.pose)
    /\ "emotion" \in Types(risks.list) => NoseAboveShoulders(risks.pose)

\* a pose lying across with tilted shoulders: the aspect ratio is above 1.5
\* and the tilt above 0.3 times the body length; the nose is below the
\* shoulders, and fall alone is returned
C26_Witness ==
  /\ risks.op = "analyze"
  /\ AllUsable(risks.pose, PostureKeypoints)
  /\ 2 * AspectRatio(risks.pose)[1] > 3 * AspectRatio(risks.pose)[2]
  /\ 20 * ShoulderSlope(risks.pose) > 3 * BodyHeight2(risks.pose)
  /\ NoseBelowShoulders(risks.pose)
  /\ Types(risks.list) = {"fall"}

(***************************************************************************)
(* A running monitor on every combination of the three vitals biases: the  *)
(* window is either calm (no pose of PulsePoses moves the wrists, so no    *)
(* aggression) or busy (every pose gives aggression), the poses are in and *)
(* out of the bed area, with and without tilted shoulders.                 *)
(***************************************************************************)
\* PoseCalm and PoseDistress with the hips left of the bed area
PoseStray ==
  Body(<<400, 170, 90>>, <<380, 200, 90>>, <<420, 200, 90>>,
       <<370, 280, 90>>, <<430, 280, 90>>, <<85, 300, 90>>, <<115, 300, 90>>, 90)
PoseDistressStray ==
  Body(<<400, 170, 90>>, <<380, 180, 90>>, <<420, 240, 90>>,
       <<370, 280, 90>>, <<430, 280, 90>>, <<85, 300, 90>>, <<115, 300, 90>>, 90)
PulsePoses == {PoseCalm, PoseDistress, PoseStray, PoseDistressStray}
PulseDraws == {<<0, 0, 0>>, <<125, 125, 125>>, <<500, 500, 500>>, <<999, 999, 999>>}

InitPulse == InitWarm \/ InitBusy
NextPulse == CycleStep(1, {"ok"}, PulsePoses, PulseDraws)
SpecPulse == InitPulse /\ [][NextPulse]_vars

\* C27: a cycle's list holds a vitals risk only if it holds an aggression
\* detection, or an emotion detection while the cycle's bed-occupancy flag is
\* false; in every other cycle no draw of the three jitters gives a vitals
\* risk; and no vitals risk is a temperature one.
C27_VitalsNeedBias ==
  (mon[1].pc \in {"query", "insert", "session"}) =>
    LET types == Types(mon[1].allRisks)
        biased == \/ "aggression" \in types
                  \/ ("emotion" \in types /\ ~mon[1].bedData.isInBed)
    IN  /\ "vitals" \in types => biased
        /\ ~biased =>
             \A rnd \in JitterDraws \X JitterDraws \X JitterDraws :
               checkVitalsRisk(generateSmartBedData(mon[1].bedData.isInBed,
                                                    "aggression" \in types,
                                                    "emotion" \in types, rnd)) = Null
        /\ ~TemperatureAbnormal(mon[1].bedData)
        /\ \A i \in DOMAIN mon[1].allRisks :
             mon[1].allRisks[i].type = "vitals" =>
               mon[1].allRisks[i].description[1] # "Abnormal temperature"

\* a cycle with an emotion detection and no aggression, the patient out of
\* bed: the respiratory rate 16 + 1.996 + 5 + 3 rounds to 26 and the cycle
\* has a vitals risk
C27_Witness ==
  /\ mon[1].pc \in {"query", "insert", "session"}
  /\ "aggression" \notin Types(mon[1].allRisks)
  /\ "emotion" \in Types(mon[1].allRisks)
  /\ ~mon[1].bedData.isInBed
  /\ mon[1].bedData.respiratoryRate = 26
  /\ ~HeartRateAbnormal(mon[1].bedData)
  /\ "vitals" \in Types(mon[1].allRisks)
  /\ RiskOfType(mon[1].allRisks, "vitals").description = <<"Abnormal respiratory rate", 26>>

\* C28: once the effect cleanup of a session has run, no step of that
\* session sends an alert insert or a monitoring_sessions insert or starts a
\* detection cycle, wherever the session was suspended when it was stopped.
C28_StoppedSessionIsSilent ==
  [][\A s \in Sessions :
       mon[s].life = "unmounted" =>
         /\ ~(mon[s].pc # "insert" /\ mon'[s].pc = "insert")
         /\ ~(mon[s].pc # "session" /\ mon'[s].pc = "session")
         /\ mon'[s].cycles = mon[s].cycles
    ]_vars

====
